---- MODULE Spec2Model ----
(***************************************************************************)
(* A model of uv's artifact / environment pipeline:                        *)
(*   - the distribution database (crates/uv-distribution), which turns a   *)
(*     distribution into an unzipped wheel in the archive bucket;          *)
(*   - the environment factory (crates/uv/src/commands/project/mod.rs).    *)
(* Each subsystem has its own specification over the shared variables.     *)
(***************************************************************************)
EXTENDS Integers, Sequences, FiniteSets, TLC

\* ------------------------------------------------------------------ bounds
\* Number of database calls that may be in flight at once.
NumCalls == 2
\* Number of ArchiveIds the cache hands out in one run.
MaxArchives == 2
\* Largest `concurrent_downloads` value given to DistributionDatabase::new.
MaxConcurrentDownloads == 2
\* Number of times the local wheel file is rewritten (its mtime changes).
MaxTouch == 1
\* Number of executions of the environment factory in one run.
NumProcs == 2
\* Longest version file (number of requests in it).
MaxFileLen == 2
\* Number of distinct Python versions and requires-python specifiers.
NumVersions == 2
U32Max == 3
MaxListLen == 2
MaxEntries == 4
MaxComponents == 3
MaxLines == 3
NumPathEntries == 2
\* Number of unzip operations in one run.
MaxUnzips == 2
\* Number of conflict sets declared in the lock.
MaxConflictSets == 2
\* Longest list of entries collected on its own before a merge.
MaxPartLen == 2

VARIABLES
    \* -- distribution database (cache on disk, client, in-flight calls)
    dist,           \* the distribution the callers of this run ask for
    archives,       \* ArchiveIds whose directory exists in the archive bucket
    nextId,         \* number of ArchiveIds handed out by Cache::persist
    unzips,         \* ArchiveId -> number of unzips persisted under that id
    http,           \* the archive pointer in the wheel's `.http` sidecar
    rev,            \* the archive pointer in the wheel's `.rev` sidecar
    link,           \* the built wheel's link into the archive bucket (0: none)
    mtime,          \* last-modified time of the local wheel file
    control,        \* ManagedClient.control: free permits of the semaphore
    limit,          \* the concurrent_downloads the database was built with
    windows,        \* cfg(windows): whether the advisory locks are compiled in
    online,         \* Connectivity::Online (TRUE) or Offline (FALSE)
    lock,           \* the call holding the wheel entry's `.lock` file (0: free)
    inflight,       \* how many calls the callers keep in flight at once
    call,           \* call slot -> the call's position and locals
    \* -- environment factory (one environment root, its lock files, executions)
    rootDir,        \* which directory the executions of this run resolve to
    root,           \* what is at that directory
    noSync,         \* --no-sync: keep an incompatible environment
    dryRun,         \* --dry-run
    requestSource,  \* the PythonRequestSource of the resolved request
    envLock,        \* lock key -> the execution holding that lock file (0: free)
    proc,           \* execution -> its position and locals
    \* -- Python request resolution
    py,             \* the inputs of one resolution and its result
    \* -- uv run
    cmd,            \* the inputs of one RunCommand::from_args and its result
    chain,          \* a chain of nested `uv run` invocations
    ov,             \* one `uv run`: its --with requirements and the overlay
    \* -- config settings
    cs,             \* two ConfigSettings and what was computed from them
    \* -- paths and version files
    pth,            \* a path, a base and what was computed from them
    vf,             \* a directory tree with version files and one discovery
    \* -- interpreter discovery
    disc,           \* the sources of one machine and one discovery
    \* -- single operations
    td,             \* one unzip into a temporary directory of the cache root
    cf,             \* one detect_conflicts: declared sets, enabled items
    dp              \* one path and its displayed forms

dbVars == <<dist, archives, nextId, unzips, http, rev, link, mtime, control,
            limit, windows, online, lock, inflight, call>>

envVars == <<rootDir, root, noSync, dryRun, requestSource, envLock, proc>>

pyVars == <<py>>

runVars == <<cmd, chain, ov>>

cfgVars == <<cs>>

fsVars == <<pth, vf>>

findVars == <<disc>>

opVars == <<td, cf, dp>>

vars == <<dbVars, envVars, pyVars, runVars, cfgVars, fsVars, findVars,
          opVars>>

\* ============================================================ the database

Calls == 1..NumCalls
ArchiveIds == 1..MaxArchives

BuiltDists == {"Registry", "RegistryFile", "DirectUrl", "Path"}
Dists == BuiltDists \cup {"Source"}
HashPolicies == {"None", "Validate", "Generate"}

NoPtr == [id |-> 0, hashed |-> FALSE, ts |-> 0]
NoRes == [ok |-> FALSE, id |-> 0, err |-> "None", hashed |-> FALSE]

IdleCall == [pc |-> "idle", op |-> "wheel", digests |-> FALSE, fn |-> "none",
             arch |-> NoPtr, unzipped |-> FALSE, dangling |-> FALSE,
             held |-> 0, res |-> NoRes]

Active(r) == r.pc \notin {"idle", "done"}

\* The function get_wheel dispatches a built distribution to.
WheelFn(d) ==
    IF d \in {"Registry", "DirectUrl"} THEN "stream" ELSE "load"

\* get_or_build_wheel: built distributions go to get_wheel, source ones to
\* build_wheel.
GetOrBuildWheelFn(d) ==
    IF d \in BuiltDists THEN WheelFn(d) ELSE "build"

\* HashPolicy::is_none.
IsNone(hashes) == hashes = "None"

\* HashPolicy::is_generate.
IsGenerate(hashes) == hashes = "Generate"

\* An archive that passes for having the digests whatever it carries.
HasDigestsAlways(ptr, digests) == TRUE

\* Archive::has_digests: with no policy every archive qualifies; otherwise the
\* archive must carry the digests.
HasDigests(ptr, digests) == ~digests \/ ptr.hashed

\* Archive::exists.
Exists(ptr, arcs) == ptr.id \in arcs

\* stream_wheel / download_wheel: the cache control given to the cached client.
CacheControlOf(isOnline, fresh) ==
    IF isOnline THEN (IF fresh THEN "None" ELSE "MustRevalidate")
    ELSE "AllowStale"

\* The cached client's lookup of the `.http` entry: whether the stored archive
\* is answered without running the download callback.
CachedHit(ptr, cc, notModified) ==
    /\ ptr # NoPtr
    /\ \/ cc \in {"None", "AllowStale"}
       \/ cc = "MustRevalidate" /\ notModified

\* A database that keeps the answered archive without looking for its
\* directory.
KeepArchiveUnchecked(ptr, digests, arcs) == HasDigests(ptr, digests)

\* stream_wheel / download_wheel: the archive answered by the cached client is
\* kept only if it has the digests and still exists; otherwise a refresh is
\* forced.
KeepArchive(ptr, digests, arcs) == HasDigests(ptr, digests) /\ Exists(ptr, arcs)

\* A load_wheel that keeps the pointer whatever its timestamp.
LoadHitStale(ptr, modified, digests) ==
    ptr # NoPtr /\ HasDigests(ptr, digests)

\* load_wheel: the `.rev` pointer is kept if it is up to date with the file
\* and has the digests.
LoadHit(ptr, modified, digests) ==
    /\ ptr # NoPtr
    /\ ptr.ts = modified
    /\ HasDigests(ptr, digests)

\* Cache::resolve_link: the link resolves when it is present and its archive
\* directory exists; otherwise NotFound.
ResolveLink(l, arcs) == l # 0 /\ l \in arcs

\* uv_extract::Error / uv_client::Error predicates.
IsStreamingUnsupported(e) == e \in {"ExtractUnsupported", "ClientUnsupported"}
IsStreamingFailed(e) == e = "ExtractFailed"

\* get_wheel, BuiltDist::Registry: the stream_wheel errors after which
\* download_wheel is tried.
RegistryFallback(e) == e \in {"ExtractUnsupported", "ExtractFailed"}

\* get_wheel, BuiltDist::DirectUrl: the stream_wheel errors after which
\* download_wheel is tried.
DirectUrlFallback(e) == e = "ClientUnsupported"

\* A get_wheel that falls back to download_wheel after every error.
FallbackAny(d, e) == TRUE

\* get_wheel: the match on stream_wheel's error, per variant.
Fallback(d, e) ==
    IF d = "Registry" THEN RegistryFallback(e) ELSE DirectUrlFallback(e)

\* Outcomes of one run of the download callback (or of the request around it).
DownloadOutcomes(fn) ==
    IF ~online THEN {"ClientOther"}
    ELSE IF fn = "stream"
    THEN {"Ok", "ExtractUnsupported", "ExtractFailed", "ExtractOther",
          "ClientUnsupported", "ClientOther"}
    ELSE {"Ok", "ExtractOther", "ClientOther"}

\* Cache::persist hands out an ArchiveId that was never used before.
FreshId(n) == n + 1

\* The first position of a function body, after the advisory lock.
BodyPc(fn) ==
    CASE fn \in {"stream", "download"} -> "m1_wait"
      [] fn = "load" -> "load_read"
      [] OTHER -> "build_link"

\* A Windows build without the advisory lock.
EnterPcUnlocked(fn) == BodyPc(fn)

\* cfg(windows): the function first takes the wheel entry's advisory lock.
EnterPc(fn) == IF windows THEN "lock" ELSE BodyPc(fn)

\* A semaphore that hands out a permit whatever its count.
AcquireUnbounded(permits) == TRUE

\* Semaphore::acquire inside ManagedClient::managed completes only while a
\* permit is free.
Acquire(permits) == permits > 0

\* A managed that gives the permit back only for a request that succeeded.
GivenBackOnOk(out) == IF out = "Ok" THEN 1 ELSE 0

\* ManagedClient::managed: the permits that go back to the semaphore when the
\* wrapped request finishes with `out`; the guard is dropped whatever the
\* request returned.
GivenBack(out) == 1

\* A managed whose permit outlives the request it was taken for.
KeepPermit(held) == held

\* ManagedClient::managed returns: `_permit` goes out of scope and the permit
\* goes back to the semaphore.
DropPermit(held) == held - 1

\* The lock guard is dropped when the function returns.
Release(c) == IF lock = c THEN 0 ELSE lock

\* The call's record when it returns to its caller; a LocalWheel takes the
\* digests of the archive it is made from.
Finish(r, ok, id, err) ==
    [r EXCEPT !.pc = "done", !.arch = NoPtr,
              !.res = [ok |-> ok, id |-> id, err |-> err,
                       hashed |-> ok /\ r.arch.hashed]]

InitDb ==
    /\ dist \in Dists
    /\ archives = {}
    /\ nextId = 0
    /\ unzips = [i \in ArchiveIds |-> 0]
    /\ http = NoPtr
    /\ rev = NoPtr
    /\ link = 0
    /\ mtime = 0
    /\ limit \in 1..MaxConcurrentDownloads
    /\ control = limit
    /\ windows \in BOOLEAN
    /\ online \in BOOLEAN
    /\ lock = 0
    /\ call = [c \in Calls |-> IdleCall]

InFlight == {c \in Calls : call[c].pc # "idle"}

\* A caller invokes get_or_build_wheel (op "wheel") or
\* get_or_build_wheel_metadata (op "metadata") in the lowest free slot.
Start(c) ==
    /\ call[c].pc = "idle"
    /\ \A d \in Calls : d < c => call[d].pc # "idle"
    /\ Cardinality(InFlight) < inflight
    /\ nextId + Cardinality(InFlight) < MaxArchives
    /\ \E op \in {"wheel", "metadata"}, hashes \in HashPolicies,
          provided \in BOOLEAN :
        /\ op = "metadata" => dist \in BuiltDists
        /\ op = "wheel" => ~provided
        /\ LET fn == GetOrBuildWheelFn(dist)
               r0 == [IdleCall EXCEPT
                        !.op = op, !.digests = ~IsNone(hashes),
                        !.dangling = (WheelFn(dist) = "stream" /\ http # NoPtr
                                      /\ http.id \notin archives)]
               r1 == CASE op = "wheel" \/ IsGenerate(hashes) ->
                            [r0 EXCEPT !.fn = fn,
                                       !.pc = IF fn = "build" THEN "build"
                                              ELSE EnterPc(fn)]
                       [] op = "metadata" /\ ~IsGenerate(hashes) /\ provided ->
                            Finish([r0 EXCEPT !.fn = "meta"], TRUE, 0, "None")
                       [] OTHER -> [r0 EXCEPT !.fn = "meta", !.pc = "meta_wait"]
           IN call' = [call EXCEPT ![c] = r1]
    /\ UNCHANGED <<fsVars, findVars, opVars, envVars, pyVars, runVars, cfgVars, dist, archives, nextId, unzips, http, rev, link, mtime,
                   control, limit, windows, online, lock, inflight>>

\* The caller takes the result; the slot is free again.
Retire(c) ==
    /\ call[c].pc = "done"
    /\ call' = [call EXCEPT ![c] = IdleCall]
    /\ UNCHANGED <<fsVars, findVars, opVars, envVars, pyVars, runVars, cfgVars, dist, archives, nextId, unzips, http, rev, link, mtime,
                   control, limit, windows, online, lock, inflight>>

\* cfg(windows): take the advisory lock of the wheel entry.
Lock(c) ==
    /\ call[c].pc = "lock"
    /\ lock = 0
    /\ lock' = c
    /\ call' = [call EXCEPT ![c].pc = BodyPc(call[c].fn)]
    /\ UNCHANGED <<fsVars, findVars, opVars, envVars, pyVars, runVars, cfgVars, dist, archives, nextId, unzips, http, rev, link, mtime,
                   control, limit, windows, online, inflight>>

\* Cache::persist of a freshly unzipped temporary directory.
Persist(id) ==
    /\ nextId' = IF id > nextId THEN id ELSE nextId
    /\ archives' = archives \cup {id}
    /\ unzips' = [unzips EXCEPT ![id] = @ + 1]

NoPersist == UNCHANGED <<nextId, archives, unzips>>

\* stream_wheel / download_wheel return `out` (with archive `ptr` when Ok) to
\* get_wheel, which either returns a LocalWheel, falls back to download_wheel
\* (the call keeps the error it warns about in res.err), or returns the error.
ReturnToGetWheel(c, r, out, ptr) ==
    /\ lock' = Release(c)
    /\ call' = [call EXCEPT ![c] =
            IF out = "Ok"
            THEN Finish([r EXCEPT !.arch = ptr], TRUE, ptr.id, "None")
            ELSE IF r.fn = "stream" /\ Fallback(dist, out)
            THEN [r EXCEPT !.fn = "download", !.arch = NoPtr,
                           !.res = [NoRes EXCEPT !.err = out],
                           !.pc = EnterPc("download")]
            ELSE Finish(r, FALSE, 0, out)]

\* ManagedClient::managed, first request: take a permit, then the cached client
\* looks the `.http` entry up.
M1Acquire(c) ==
    /\ call[c].pc = "m1_wait"
    /\ Acquire(control)
    /\ control' = control - 1
    /\ \E fresh \in BOOLEAN, notModified \in BOOLEAN :
        LET hit == CachedHit(http, CacheControlOf(online, fresh), notModified)
        IN call' = [call EXCEPT ![c].pc = "m1_run",
                                ![c].held = @ + 1,
                                ![c].arch = IF hit THEN http ELSE NoPtr]
    /\ UNCHANGED <<fsVars, findVars, opVars, envVars, pyVars, runVars, cfgVars, dist, archives, nextId, unzips, http, rev, link, mtime,
                   limit, windows, online, lock, inflight>>

\* The first request completes: a cache hit answers the stored archive, a miss
\* runs the download callback (unzip, persist) and the cached client writes the
\* sidecar. The permit is dropped, and the answer is kept or a refresh forced.
M1Run(c) ==
    LET r == [call[c] EXCEPT !.held = DropPermit(@)]
    IN
    /\ r.pc = "m1_run"
    /\ \/ /\ r.arch # NoPtr
          /\ control' = control + GivenBack("Ok")
          /\ NoPersist
          /\ http' = http
          /\ IF KeepArchive(r.arch, r.digests, archives)
             THEN ReturnToGetWheel(c, r, "Ok", r.arch)
             ELSE /\ call' = [call EXCEPT ![c] =
                                [r EXCEPT !.pc = "m2_wait", !.arch = NoPtr]]
                  /\ lock' = lock
       \/ /\ r.arch = NoPtr
          /\ \E out \in DownloadOutcomes(r.fn) :
              /\ control' = control + GivenBack(out)
              /\ IF out = "Ok"
                 THEN LET id == FreshId(nextId)
                          ptr == [id |-> id, hashed |-> r.digests, ts |-> 0]
                          r1 == [r EXCEPT !.unzipped = TRUE]
                      IN /\ Persist(id)
                         /\ http' = ptr
                         /\ IF KeepArchive(ptr, r.digests, archives \cup {id})
                            THEN ReturnToGetWheel(c, r1, "Ok", ptr)
                            ELSE /\ call' = [call EXCEPT ![c] =
                                               [r1 EXCEPT !.pc = "m2_wait"]]
                                 /\ lock' = lock
                 ELSE /\ NoPersist
                      /\ http' = http
                      /\ ReturnToGetWheel(c, r, out, NoPtr)
    /\ UNCHANGED <<fsVars, findVars, opVars, envVars, pyVars, runVars, cfgVars, dist, rev, link, mtime, limit, windows, online, inflight>>

\* ManagedClient::managed, forced refresh: take a permit.
M2Acquire(c) ==
    /\ call[c].pc = "m2_wait"
    /\ Acquire(control)
    /\ control' = control - 1
    /\ call' = [call EXCEPT ![c].pc = "m2_run", ![c].held = @ + 1]
    /\ UNCHANGED <<fsVars, findVars, opVars, envVars, pyVars, runVars, cfgVars, dist, archives, nextId, unzips, http, rev, link, mtime,
                   limit, windows, online, lock, inflight>>

\* skip_cache_with_retry: the download callback runs again and the sidecar is
\* rewritten.
M2Run(c) ==
    LET r == [call[c] EXCEPT !.held = DropPermit(@)]
    IN
    /\ r.pc = "m2_run"
    /\ \E out \in DownloadOutcomes(r.fn) :
          /\ control' = control + GivenBack(out)
          /\ IF out = "Ok"
             THEN LET id == FreshId(nextId)
                      ptr == [id |-> id, hashed |-> r.digests, ts |-> 0]
                  IN /\ Persist(id)
                     /\ http' = ptr
                     /\ ReturnToGetWheel(c, [r EXCEPT !.unzipped = TRUE], "Ok", ptr)
             ELSE /\ NoPersist
                  /\ http' = http
                  /\ ReturnToGetWheel(c, r, out, NoPtr)
    /\ UNCHANGED <<fsVars, findVars, opVars, envVars, pyVars, runVars, cfgVars, dist, rev, link, mtime, limit, windows, online, inflight>>

\* load_wheel: read the file's timestamp and the `.rev` pointer; return the
\* pointed-to archive when the pointer is up to date.
LoadRead(c) ==
    LET r == call[c]
    IN
    /\ r.pc = "load_read"
    /\ IF LoadHit(rev, mtime, r.digests)
       THEN /\ call' = [call EXCEPT ![c] =
                  Finish([r EXCEPT !.arch = rev], TRUE, rev.id, "None")]
            /\ lock' = Release(c)
       ELSE /\ call' = [call EXCEPT ![c].pc = "load_unzip"]
            /\ lock' = lock
    /\ UNCHANGED <<fsVars, findVars, opVars, envVars, pyVars, runVars, cfgVars, dist, archives, nextId, unzips, http, rev, link, mtime,
                   control, limit, windows, online, inflight>>

\* load_wheel: unzip the wheel (hashing it if the policy asks), persist it and
\* write the `.rev` pointer.
LoadUnzip(c) ==
    LET r == call[c]
    IN
    /\ r.pc = "load_unzip"
    /\ \E ok \in BOOLEAN :
          IF ok
          THEN LET id == FreshId(nextId)
               IN /\ Persist(id)
                  /\ rev' = [id |-> id, hashed |-> r.digests, ts |-> mtime]
                  /\ call' = [call EXCEPT ![c] =
                        Finish([r EXCEPT !.unzipped = TRUE,
                                         !.arch = [id |-> id,
                                                   hashed |-> r.digests,
                                                   ts |-> mtime]],
                               TRUE, id, "None")]
          ELSE /\ NoPersist
               /\ rev' = rev
               /\ call' = [call EXCEPT ![c] =
                     Finish(r, FALSE, 0, "ExtractOther")]
    /\ lock' = Release(c)
    /\ UNCHANGED <<fsVars, findVars, opVars, envVars, pyVars, runVars, cfgVars, dist, http, link, mtime, control, limit, windows, online,
                   inflight>>

\* build_wheel: the source-distribution builder downloads and builds the wheel.
Build(c) ==
    /\ call[c].pc = "build"
    /\ \E ok \in BOOLEAN :
          call' = [call EXCEPT ![c] =
              IF ok THEN [call[c] EXCEPT !.pc = EnterPc("build")]
              ELSE Finish(call[c], FALSE, 0, "Build")]
    /\ UNCHANGED <<fsVars, findVars, opVars, envVars, pyVars, runVars, cfgVars, dist, archives, nextId, unzips, http, rev, link, mtime,
                   control, limit, windows, online, lock, inflight>>

\* build_wheel: respect a previously unzipped wheel if its link resolves.
BuildLink(c) ==
    /\ call[c].pc = "build_link"
    /\ IF ResolveLink(link, archives)
       THEN /\ call' = [call EXCEPT ![c] = Finish(call[c], TRUE, link, "None")]
            /\ lock' = Release(c)
       ELSE /\ call' = [call EXCEPT ![c].pc = "build_unzip"]
            /\ lock' = lock
    /\ UNCHANGED <<fsVars, findVars, opVars, envVars, pyVars, runVars, cfgVars, dist, archives, nextId, unzips, http, rev, link, mtime,
                   control, limit, windows, online, inflight>>

\* build_wheel: unzip_wheel, which persists the directory and links the target.
BuildUnzip(c) ==
    /\ call[c].pc = "build_unzip"
    /\ \E ok \in BOOLEAN :
          IF ok
          THEN LET id == FreshId(nextId)
               IN /\ Persist(id)
                  /\ link' = id
                  /\ call' = [call EXCEPT ![c] =
                        Finish([call[c] EXCEPT !.unzipped = TRUE], TRUE, id,
                               "None")]
          ELSE /\ NoPersist
               /\ link' = link
               /\ call' = [call EXCEPT ![c] =
                     Finish(call[c], FALSE, 0, "ExtractOther")]
    /\ lock' = Release(c)
    /\ UNCHANGED <<fsVars, findVars, opVars, envVars, pyVars, runVars, cfgVars, dist, http, rev, mtime, control, limit, windows, online,
                   inflight>>

\* get_wheel_metadata: take a permit for the metadata request.
MetaAcquire(c) ==
    /\ call[c].pc = "meta_wait"
    /\ Acquire(control)
    /\ control' = control - 1
    /\ call' = [call EXCEPT ![c].pc = "meta_run", ![c].held = @ + 1]
    /\ UNCHANGED <<fsVars, findVars, opVars, envVars, pyVars, runVars, cfgVars, dist, archives, nextId, unzips, http, rev, link, mtime,
                   limit, windows, online, lock, inflight>>

\* get_wheel_metadata: the request completes; when the server does not support
\* streaming the whole wheel is fetched through get_wheel.
MetaRun(c) ==
    LET r == [call[c] EXCEPT !.held = DropPermit(@)]
    IN
    /\ r.pc = "meta_run"
    /\ \E out \in {"Ok", "ClientUnsupported", "ClientOther"} :
          /\ control' = control + GivenBack(out)
          /\ call' = [call EXCEPT ![c] =
              CASE out = "Ok" -> Finish(r, TRUE, 0, "None")
                [] out = "ClientUnsupported" ->
                      [r EXCEPT !.fn = WheelFn(dist),
                                !.pc = EnterPc(WheelFn(dist))]
                [] OTHER -> Finish(r, FALSE, 0, out)]
    /\ UNCHANGED <<fsVars, findVars, opVars, envVars, pyVars, runVars, cfgVars, dist, archives, nextId, unzips, http, rev, link, mtime,
                   limit, windows, online, lock, inflight>>

Quiet == InFlight = {}

\* The environment: the cache is pruned between calls.
GC ==
    /\ Quiet
    /\ \E a \in archives : archives' = archives \ {a}
    /\ UNCHANGED <<fsVars, findVars, opVars, envVars, pyVars, runVars, cfgVars, dist, nextId, unzips, http, rev, link, mtime, control,
                   limit, windows, online, lock, inflight, call>>

\* The environment: the local wheel file is rewritten between calls.
Touch ==
    /\ Quiet
    /\ WheelFn(dist) = "load"
    /\ mtime < MaxTouch
    /\ mtime' = mtime + 1
    /\ UNCHANGED <<fsVars, findVars, opVars, envVars, pyVars, runVars, cfgVars, dist, archives, nextId, unzips, http, rev, link, control,
                   limit, windows, online, lock, inflight, call>>

DbNext ==
    \/ \E c \in Calls : Start(c)
    \/ \E c \in Calls : Retire(c)
    \/ \E c \in Calls : Lock(c)
    \/ \E c \in Calls : M1Acquire(c)
    \/ \E c \in Calls : M1Run(c)
    \/ \E c \in Calls : M2Acquire(c)
    \/ \E c \in Calls : M2Run(c)
    \/ \E c \in Calls : LoadRead(c)
    \/ \E c \in Calls : LoadUnzip(c)
    \/ \E c \in Calls : Build(c)
    \/ \E c \in Calls : BuildLink(c)
    \/ \E c \in Calls : BuildUnzip(c)
    \/ \E c \in Calls : MetaAcquire(c)
    \/ \E c \in Calls : MetaRun(c)
    \/ GC
    \/ Touch

\* ------------------------------------------------- temporary directories

\* The operations that unzip a wheel into a temporary directory of the cache
\* root: the download callbacks of stream_wheel and download_wheel, the hashing
\* branch of load_wheel, and unzip_wheel.
UnzipOps == {"stream_wheel", "download_wheel", "load_wheel", "unzip_wheel"}

IdleTd == [op |-> "none", hashing |-> FALSE, pc |-> "idle", dir |-> FALSE,
           guard |-> FALSE, res |-> "None", archived |-> 0, ran |-> 0]

\* TempDir's destructor: the directory is removed while the value still owns
\* it.
DropTempDir(t) ==
    IF t.guard THEN [t EXCEPT !.dir = FALSE, !.guard = FALSE] ELSE t

\* The operation returns: its locals are dropped.
ReturnFromUnzip(t, res) ==
    [DropTempDir(t) EXCEPT !.pc = "returned", !.res = res]

\* The error a failed Cache::persist is mapped to.
PersistError(op) ==
    IF op \in {"stream_wheel", "download_wheel"} THEN "CacheRead"
    ELSE "CacheWrite"

InitTd == td = IdleTd

\* One of the operations starts. load_wheel unzips by itself only when it has
\* to hash; unzip_wheel never hashes.
BeginUnzip ==
    /\ td.pc \in {"idle", "returned"}
    /\ td.ran < MaxUnzips
    /\ \E op \in UnzipOps, hashing \in BOOLEAN :
        /\ op = "load_wheel" => hashing
        /\ op = "unzip_wheel" => ~hashing
        /\ td' = [td EXCEPT !.op = op, !.hashing = hashing, !.pc = "tempdir",
                            !.dir = FALSE, !.guard = FALSE, !.res = "None",
                            !.ran = @ + 1]
    /\ UNCHANGED <<dbVars, envVars, pyVars, runVars, cfgVars, fsVars, findVars,
                   cf, dp>>

\* tempfile::tempdir_in(cache.root()).
TempdirIn ==
    /\ td.pc = "tempdir"
    /\ \E ok \in BOOLEAN :
        td' = IF ok
              THEN [td EXCEPT !.dir = TRUE, !.guard = TRUE, !.pc = "unzip"]
              ELSE ReturnFromUnzip(td, "CacheWrite")
    /\ UNCHANGED <<dbVars, envVars, pyVars, runVars, cfgVars, fsVars, findVars,
                   cf, dp>>

\* uv_extract::stream::unzip / uv_extract::unzip into the temporary directory.
UnzipInto ==
    /\ td.pc = "unzip"
    /\ \E ok \in BOOLEAN :
        td' = IF ok
              THEN [td EXCEPT !.pc = IF td.hashing THEN "finish" ELSE "keep"]
              ELSE ReturnFromUnzip(td, "Extract")
    /\ UNCHANGED <<dbVars, envVars, pyVars, runVars, cfgVars, fsVars, findVars,
                   cf, dp>>

\* hasher.finish(): the reader is exhausted to compute the hash.
HashFinish ==
    /\ td.pc = "finish"
    /\ \E ok \in BOOLEAN :
        td' = IF ok THEN [td EXCEPT !.pc = "keep"]
              ELSE ReturnFromUnzip(td, "HashExhaustion")
    /\ UNCHANGED <<dbVars, envVars, pyVars, runVars, cfgVars, fsVars, findVars,
                   cf, dp>>

\* temp_dir.keep(), the argument of Cache::persist: the TempDir is turned into
\* its path and no longer removes the directory.
KeepTempDir ==
    /\ td.pc = "keep"
    /\ td' = [td EXCEPT !.guard = FALSE, !.pc = "persist"]
    /\ UNCHANGED <<dbVars, envVars, pyVars, runVars, cfgVars, fsVars, findVars,
                   cf, dp>>

\* Cache::persist: the directory is renamed into the archive bucket, or the
\* rename fails and the error is returned with `?`.
PersistTempDir ==
    /\ td.pc = "persist"
    /\ \E ok \in BOOLEAN :
        td' = IF ok
              THEN ReturnFromUnzip([td EXCEPT !.dir = FALSE,
                                              !.archived = @ + 1], "Ok")
              ELSE ReturnFromUnzip(td, PersistError(td.op))
    /\ UNCHANGED <<dbVars, envVars, pyVars, runVars, cfgVars, fsVars, findVars,
                   cf, dp>>

UnzipNext ==
    \/ BeginUnzip
    \/ TempdirIn
    \/ UnzipInto
    \/ HashFinish
    \/ KeepTempDir
    \/ PersistTempDir

\* ------------------------------------------------------ detect_conflicts

\* The extras and groups of the project, as conflict items in the order a
\* conflict set iterates them.
ExtraNames == {"x", "y"}
GroupNames == {"g", "h"}
ConflictItems == << [kind |-> "extra", name |-> "x"],
                    [kind |-> "extra", name |-> "y"],
                    [kind |-> "group", name |-> "g"],
                    [kind |-> "group", name |-> "h"] >>

ItemSet == {ConflictItems[i] : i \in DOMAIN ConflictItems}

\* Declared conflict sets: at least two items each.
ConflictSets == {set \in SUBSET ItemSet : Cardinality(set) >= 2}

Locks == UNION {[1..n -> ConflictSets] : n \in 0..MaxConflictSets}

NoConflict == [ok |-> TRUE, index |-> 0, conflicts |-> <<>>]

IdleCf == [lock |-> <<>>, extras |-> {}, groups |-> {}, done |-> FALSE,
           res |-> NoConflict]

\* detect_conflicts, inner loop: an item is pushed when it is an extra that
\* the extras specification contains or a group that the groups contain.
IsEnabled(item, extras, groups) ==
    \/ item.kind = "extra" /\ item.name \in extras
    \/ item.kind = "group" /\ item.name \in groups

\* detect_conflicts: the enabled items of one set, in the set's order.
EnabledOf(set, extras, groups) ==
    SelectSeq(ConflictItems,
              LAMBDA item : item \in set /\ IsEnabled(item, extras, groups))

\* A check that fails as soon as one item of a set is enabled.
IsConflictOne(conflicts) == Len(conflicts) >= 1

\* detect_conflicts: `conflicts.len() >= 2`.
IsConflict(conflicts) == Len(conflicts) >= 2

\* detect_conflicts: the sets are visited in order; the first one with a
\* conflict is the error.
RECURSIVE DetectFrom(_, _, _, _)
DetectFrom(lck, k, extras, groups) ==
    IF k > Len(lck) THEN NoConflict
    ELSE LET conflicts == EnabledOf(lck[k], extras, groups)
         IN IF IsConflict(conflicts)
            THEN [ok |-> FALSE, index |-> k, conflicts |-> conflicts]
            ELSE DetectFrom(lck, k + 1, extras, groups)

InitCf ==
    /\ cf \in {[IdleCf EXCEPT !.lock = l, !.extras = e, !.groups = g] :
                  l \in Locks, e \in SUBSET ExtraNames,
                  g \in SUBSET GroupNames}

DetectConflicts ==
    /\ ~cf.done
    /\ cf' = [cf EXCEPT !.done = TRUE,
                        !.res = DetectFrom(cf.lock, 1, cf.extras, cf.groups)]
    /\ UNCHANGED <<dbVars, envVars, pyVars, runVars, cfgVars, fsVars, findVars,
                   td, dp>>

ConflictNext == DetectConflicts

\* The items of a declared set that are enabled.
EnabledIn(set) ==
    {item \in set :
        \/ item.kind = "extra" /\ item.name \in cf.extras
        \/ item.kind = "group" /\ item.name \in cf.groups}

\* The declared sets with at least two enabled items.
Clashing == {k \in DOMAIN cf.lock : Cardinality(EnabledIn(cf.lock[k])) >= 2}

\* C35 as stated: detect_conflicts fails exactly when every item of some
\* declared conflict set is enabled.
C35_FailsIffSupersetOfASet ==
    cf.done =>
        (~cf.res.ok <=> \E k \in DOMAIN cf.lock :
                            EnabledIn(cf.lock[k]) = cf.lock[k])

\* C35: detect_conflicts fails exactly when at least two items of some
\* declared conflict set are enabled; the error names the first such set and
\* lists its enabled items, in the set's order.
C35_FailsIffTwoOfASetEnabled ==
    cf.done =>
        /\ ~cf.res.ok <=> Clashing # {}
        /\ ~cf.res.ok =>
              /\ cf.res.index \in Clashing
              /\ \A k \in Clashing : cf.res.index <= k
              /\ {cf.res.conflicts[i] : i \in DOMAIN cf.res.conflicts}
                    = EnabledIn(cf.lock[cf.res.index])
              /\ \A i, j \in DOMAIN cf.res.conflicts :
                    i < j => \E a, b \in DOMAIN ConflictItems :
                                /\ a < b
                                /\ ConflictItems[a] = cf.res.conflicts[i]
                                /\ ConflictItems[b] = cf.res.conflicts[j]

\* The set {x, y, g} is declared and only x and g are enabled: the call
\* fails although the enabled items do not include the whole set.
C35_Witness ==
    /\ cf.done
    /\ cf.lock = << {ConflictItems[1], ConflictItems[2], ConflictItems[3]} >>
    /\ cf.extras = {"x"}
    /\ cf.groups = {"g"}
    /\ ~cf.res.ok
    /\ cf.res.conflicts = << ConflictItems[1], ConflictItems[3] >>

\* C32: an unzip operation that fails at any step, the persist step included,
\* leaves no temporary directory in the cache root.
C32_NoTempDirAfterFailure ==
    td.pc = "returned" /\ td.res # "Ok" => ~td.dir

\* Failures before the persist step do remove the directory.
TempDirRemovedBeforePersist ==
    td.pc = "returned" /\ td.res \in {"Extract", "HashExhaustion"} => ~td.dir

\* ------------------------------------------------- database properties

\* A call that is unzipping a wheel (inside the download callback, or in the
\* unzip step of load_wheel / build_wheel).
Unzipping(r) ==
    \/ r.pc = "m1_run" /\ r.arch = NoPtr
    \/ r.pc \in {"m2_run", "load_unzip", "build_unzip"}

\* The calls inside ManagedClient::managed.
InManaged == {c \in Calls : call[c].pc \in {"m1_run", "m2_run", "meta_run"}}

\* The calls waiting for a permit of ManagedClient.
WaitingManaged ==
    {c \in Calls : call[c].pc \in {"m1_wait", "m2_wait", "meta_wait"}}

\* C1: whenever get_or_build_wheel returns Ok(LocalWheel), for any
\* distribution variant and any prior cache state, the returned archive
\* directory exists in the archive bucket.
C1_ReturnedArchiveExists ==
    \A c \in Calls :
        (call[c].pc = "done" /\ call[c].op = "wheel" /\ call[c].res.ok)
            => call[c].res.id \in archives

\* C2: a call that starts with a `.http` pointer whose archive directory was
\* deleted and returns Ok from stream_wheel / download_wheel has run the
\* download callback again, returns an archive that exists, and the sidecar
\* now points to that archive.
C2_CacheMissRewrite ==
    \A c \in Calls :
        (/\ call[c].pc = "done"
         /\ call[c].dangling
         /\ call[c].fn \in {"stream", "download"}
         /\ call[c].res.ok)
            => /\ call[c].unzipped
               /\ call[c].res.id \in archives
               /\ http.id = call[c].res.id

\* C2 (its case): a call that started on a dangling `.http` pointer has
\* returned Ok after the forced refresh.
C2_Witness ==
    \E c \in Calls :
        /\ call[c].pc = "done"
        /\ call[c].dangling
        /\ call[c].fn \in {"stream", "download"}
        /\ call[c].res.ok
        /\ call[c].unzipped
        /\ nextId > 1

\* C3: get_wheel never returns stream_wheel's streaming-unsupported or
\* streaming-failed error to its caller, for registry and direct-URL wheels:
\* after such an error it has fallen back to download_wheel.
C3_StreamingErrorNotReturned ==
    \A c \in Calls :
        (call[c].pc = "done" /\ call[c].fn = "stream")
            => ~(\/ IsStreamingUnsupported(call[c].res.err)
                 \/ IsStreamingFailed(call[c].res.err))

\* The calls that have returned an archive from stream_wheel or
\* download_wheel.
Returned(c) ==
    /\ call[c].pc = "done" /\ call[c].res.ok /\ call[c].res.id # 0
    /\ call[c].fn \in {"stream", "download"}

\* C30: stream_wheel and download_wheel return a cached archive only if it
\* has the digests the caller's policy requires and its directory exists;
\* otherwise the cache is bypassed and the archive is downloaded afresh; a
\* fresh archive carries the digests when the policy requires them and none
\* when the policy is none.
C30_CachedArchiveHasDigests ==
    /\ [](\A c \in Calls :
            Returned(c) =>
                /\ call[c].digests => call[c].res.hashed
                /\ call[c].unzipped => call[c].res.hashed = call[c].digests)
    /\ [][\A c \in Calls :
            (call[c].pc = "m1_run" /\ call[c].arch # NoPtr
                /\ call'[c] # call[c]) =>
                IF (call[c].digests => call[c].arch.hashed)
                   /\ call[c].arch.id \in archives
                THEN /\ call'[c].pc = "done" /\ call'[c].res.ok
                     /\ call'[c].res.id = call[c].arch.id
                     /\ ~call'[c].unzipped
                ELSE call'[c].pc = "m2_wait"]_vars

\* C30 (its case): a call that requires digests has returned a second
\* archive, downloaded by itself and carrying the digests, while the first
\* archive is still in the bucket.
C30_Witness ==
    \E c \in Calls :
        /\ Returned(c)
        /\ call[c].digests /\ call[c].unzipped /\ call[c].res.hashed
        /\ call[c].res.id = 2 /\ 1 \in archives
        /\ http = [id |-> 2, hashed |-> TRUE, ts |-> 0]

\* The requests of stream_wheel / download_wheel have completed in this step
\* of call c.
LeavesRequest(c) ==
    /\ call[c].pc \in {"m1_run", "m2_run"}
    /\ call'[c] # call[c]

\* C31: an error of stream_wheel that is neither streaming-unsupported nor
\* streaming-failed is returned to the caller without download_wheel being
\* called, and the fallback is tried at most once: download_wheel is entered
\* only from stream_wheel, only after a streaming error, and whatever
\* download_wheel returns ends the call.
C31_FallbackOnlyOnStreamingErrorOnce ==
    /\ [](\A c \in Calls :
            call[c].fn = "download" /\ call[c].pc # "done" =>
                \/ IsStreamingUnsupported(call[c].res.err)
                \/ IsStreamingFailed(call[c].res.err))
    /\ [][\A c \in Calls :
            /\ call'[c].fn = "download" /\ call[c].fn # "download" =>
                    call[c].fn = "stream" /\ LeavesRequest(c)
            /\ call[c].fn = "stream" /\ LeavesRequest(c) =>
                    \/ call'[c].pc = "m2_wait" /\ call'[c].fn = "stream"
                    \/ call'[c].pc = "done" /\ call'[c].fn = "stream"
                    \/ /\ call'[c].fn = "download"
                       /\ call'[c].pc = EnterPc("download")
                       /\ \/ IsStreamingUnsupported(call'[c].res.err)
                          \/ IsStreamingFailed(call'[c].res.err)
            /\ call[c].fn = "download" /\ LeavesRequest(c) =>
                    /\ call'[c].fn = "download"
                    /\ call'[c].pc \in {"m2_wait", "done"}
                    /\ call[c].pc = "m2_run" => call'[c].pc = "done"]_vars

\* One call returned stream_wheel's other error without falling back, and
\* another returned the error of its one download_wheel.
C31_Witness ==
    \E c, d \in Calls :
        /\ call[c].pc = "done" /\ call[c].fn = "stream"
        /\ call[c].res.err \in {"ExtractOther", "ClientOther"}
        /\ call[d].pc = "done" /\ call[d].fn = "download"
        /\ ~call[d].res.ok

\* C33: load_wheel returns the `.rev` pointer's archive, unzipping nothing,
\* exactly when the pointer's timestamp is the file's modification time and
\* its digests satisfy the policy; otherwise it goes on to unzip, and a
\* successful unzip is persisted under an ArchiveId never used before and the
\* pointer is rewritten with that id and the file's timestamp. No step unzips
\* into an archive directory that was persisted earlier.
C33_LoadReusesExactlyUpToDatePointer ==
    [][/\ \A c \in Calls :
            /\ call[c].pc = "load_read" /\ call'[c] # call[c] =>
                  IF /\ rev # NoPtr
                     /\ rev.ts = mtime
                     /\ (call[c].digests => rev.hashed)
                  THEN /\ call'[c].pc = "done"
                       /\ call'[c].res.ok
                       /\ call'[c].res.id = rev.id
                       /\ ~call'[c].unzipped
                       /\ UNCHANGED <<rev, archives, unzips, nextId>>
                  ELSE /\ call'[c].pc = "load_unzip"
                       /\ UNCHANGED <<rev, archives, unzips, nextId>>
            /\ call[c].pc = "load_unzip" /\ call'[c] # call[c] =>
                  /\ call'[c].pc = "done"
                  /\ IF call'[c].res.ok
                     THEN /\ call'[c].res.id \notin archives
                          /\ unzips[call'[c].res.id] = 0
                          /\ call'[c].res.id \in archives'
                          /\ rev' = [id |-> call'[c].res.id,
                                     hashed |-> call[c].digests,
                                     ts |-> mtime]
                     ELSE UNCHANGED <<rev, archives, unzips, nextId>>
       /\ \A a \in ArchiveIds : unzips[a] >= 1 => unzips'[a] = unzips[a]]_vars

\* The wheel file was rewritten after a first unzip: the next load_wheel
\* unzipped it into a second archive and left the first one as it was.
C33_Witness ==
    \E c \in Calls :
        /\ call[c].pc = "done" /\ call[c].fn = "load"
        /\ call[c].unzipped /\ call[c].res.id = 2
        /\ mtime = 1
        /\ rev = [id |-> 2, hashed |-> call[c].digests, ts |-> 1]
        /\ 1 \in archives /\ unzips[1] = 1

\* A call that waits for a download permit.
WaitsForPermit(r) == r.pc \in {"m1_wait", "m2_wait", "meta_wait"}

\* C34: nested downloads cannot deadlock on the download permit, whatever the
\* limit (1 included): no call waits for a permit while it holds one, and
\* every call that was started, a metadata call that falls back to fetching
\* the wheel and a stream_wheel that forces a refresh included, eventually
\* returns.
C34_NestedDownloadsComplete ==
    /\ [](\A c \in Calls : WaitsForPermit(call[c]) => call[c].held = 0)
    /\ \A c \in Calls : Active(call[c]) ~> (call[c].pc = "done")

\* With a single permit, a metadata call fell back to get_wheel, whose first
\* request was answered by an archive without the digests: it is in its third
\* managed request.
C34_Witness ==
    \E c \in Calls :
        /\ limit = 1
        /\ call[c].op = "metadata"
        /\ call[c].fn = "stream"
        /\ call[c].pc = "m2_run"
        /\ call[c].held = 1

\* The permits held by the calls in flight.
RECURSIVE HeldUpTo(_)
HeldUpTo(c) == IF c = 0 THEN 0 ELSE call[c].held + HeldUpTo(c - 1)

\* C38: permits are conserved. The free permits and the permits of the
\* requests in flight add up to concurrent_downloads; a call has a permit
\* exactly while its managed request is in flight, however that request ends;
\* so whenever no managed request is in flight every permit is free.
C38_PermitsConserved ==
    /\ control + HeldUpTo(NumCalls) = limit
    /\ \A c \in Calls : call[c].held = (IF c \in InManaged THEN 1 ELSE 0)
    /\ InManaged = {} => control = limit

\* Two calls have returned errors of their managed requests (a client error
\* and an error of the download callback) and every permit is free.
C38_Witness ==
    /\ InManaged = {}
    /\ control = limit
    /\ \E c, d \in Calls :
        /\ call[c].pc = "done" /\ call[c].res.err = "ClientOther"
        /\ call[d].pc = "done" /\ call[d].res.err = "ExtractOther"

\* C5 (as stated): of the concurrent calls for one distribution at most one
\* is downloading and unzipping; the others wait and observe its pointer.
C5_OneUnzipper == Cardinality({c \in Calls : Unzipping(call[c])}) <= 1

\* C5 (amended): every ArchiveId handed out holds exactly one unzip; where the
\* advisory lock is compiled in (Windows) at most one call is unzipping at a
\* time and it holds the lock; and a call that returns an archive without
\* unzipping returns one that was published before.
C5_OneUnzipPerArchive ==
    /\ \A id \in ArchiveIds : unzips[id] = IF id <= nextId THEN 1 ELSE 0
    /\ windows =>
          /\ Cardinality({c \in Calls : Unzipping(call[c])}) <= 1
          /\ \A c \in Calls : Unzipping(call[c]) => lock = c
    /\ \A c \in Calls :
          (call[c].pc = "done" /\ call[c].res.ok /\ call[c].res.id # 0
           /\ ~call[c].unzipped)
              => call[c].res.id \in 1..nextId

\* C5 (its case): one call is unzipping while another call for the same
\* distribution waits for the lock.
C5_Witness ==
    \E c, d \in Calls :
        /\ c # d
        /\ Unzipping(call[c])
        /\ call[d].pc = "lock"

\* C6: the number of requests inside ManagedClient::managed never exceeds
\* concurrent_downloads: every request inside holds a permit and the permits
\* never run below zero, so a call arriving at the limit waits.
C6_ManagedWithinLimit ==
    /\ Cardinality(InManaged) <= limit
    /\ control >= 0
    /\ Cardinality(InManaged) + control <= limit

\* C6 (its case): a call waits for a permit while the limit is reached.
C6_Witness ==
    /\ Cardinality(InManaged) = limit
    /\ WaitingManaged # {}

\* ===================================================== environment factory

Procs == 1..NumProcs
Targets == {"project", "script"}
Sources == {"UserRequest", "DotPythonVersion", "RequiresPython"}
RootDirs == {"VIRTUAL_ENV", "project_env", "cache_env"}

\* What can be at the environment root. Kinds other than "venv":
\*   absent    nothing at the path          file     a regular file
\*   empty     an empty directory           foreign  a non-empty directory with
\*   bare      pyvenv.cfg, no executable             no pyvenv.cfg, no executable
\*   notfound / symlink / queryfail: pyvenv.cfg and an executable whose query
\*   fails (interpreter not found / broken symlink / any other query error).
\* A "venv" carries the outcome of the four compatibility checks against the
\* request of this run.
Dir(kind) ==
    [kind |-> kind, drift |-> FALSE, request |-> TRUE, requires |-> TRUE,
     preference |-> TRUE]

Venvs ==
    {[kind |-> "venv", drift |-> d, request |-> q, requires |-> r,
      preference |-> f] : d, q, r, f \in BOOLEAN}

OtherDirs ==
    {Dir(k) : k \in {"absent", "file", "empty", "foreign", "bare", "notfound",
                     "symlink", "queryfail"}}

\* root.join("pyvenv.cfg").try_exists()
HasPyvenvCfg(d) == d.kind \in {"venv", "bare", "notfound", "symlink", "queryfail"}

\* root.try_exists()
RootExists(d) == d.kind # "absent"

\* root.read_dir() succeeds and yields no entry.
IsEmptyDir(d) == d.kind = "empty"

\* root.read_dir() succeeds and yields an entry.
IsNonEmptyDir(d) == d.kind \notin {"absent", "file", "empty"}

\* PythonEnvironment::from_root.
FromRoot(d) ==
    CASE d.kind = "venv" -> "Ok"
      [] d.kind = "absent" -> "MissingEnvironment"
      [] d.kind = "file" -> "NotDirectory"
      [] d.kind = "empty" -> "Empty"
      [] d.kind \in {"foreign", "bare"} -> "MissingExecutable"
      [] d.kind = "notfound" -> "QueryNotFound"
      [] d.kind = "symlink" -> "QueryBrokenSymlink"
      [] OTHER -> "QueryOther"

\* An environment_is_usable that skips the requires-python check.
EnvironmentIsUsableNoRequires(d) ==
    CASE d.drift -> "PyenvVersionConflict"
      [] ~d.request -> "PythonRequest"
      [] ~d.preference -> "PythonPreference"
      [] OTHER -> "Ok"

\* environment_is_usable: the first failing check, in the order of the code.
EnvironmentIsUsable(d) ==
    CASE d.drift -> "PyenvVersionConflict"
      [] ~d.request -> "PythonRequest"
      [] ~d.requires -> "RequiresPython"
      [] ~d.preference -> "PythonPreference"
      [] OTHER -> "Ok"

\* A match on from_root that lets a root that is not a directory through.
ProjectDiscoverRootLenient(d, keepIncompatible) ==
    LET r == FromRoot(d)
    IN CASE r = "Ok" ->
              IF EnvironmentIsUsable(d) = "Ok" \/ keepIncompatible
              THEN "Environment" ELSE "Continue"
         [] r = "MissingExecutable" ->
              IF IsNonEmptyDir(d) /\ ~HasPyvenvCfg(d)
              THEN "InvalidProjectEnvironmentDir" ELSE "Continue"
         [] r = "QueryOther" -> "Python"
         [] OTHER -> "Continue"

\* ProjectInterpreter::discover, the match on from_root: use the environment,
\* go on to find an interpreter, or fail.
ProjectDiscoverRoot(d, keepIncompatible) ==
    LET r == FromRoot(d)
    IN CASE r = "Ok" ->
              IF EnvironmentIsUsable(d) = "Ok" \/ keepIncompatible
              THEN "Environment" ELSE "Continue"
         [] r = "MissingEnvironment" -> "Continue"
         [] r = "NotDirectory" -> "InvalidProjectEnvironmentDir"
         [] r = "MissingExecutable" ->
              IF IsNonEmptyDir(d) /\ ~HasPyvenvCfg(d)
              THEN "InvalidProjectEnvironmentDir" ELSE "Continue"
         [] r = "Empty" -> "Continue"
         [] r \in {"QueryNotFound", "QueryBrokenSymlink"} -> "Continue"
         [] OTHER -> "Python"

\* ScriptInterpreter::discover, the match on from_root: every error is ignored.
ScriptDiscoverRoot(d, keepIncompatible) ==
    IF FromRoot(d) = "Ok" /\ (EnvironmentIsUsable(d) = "Ok" \/ keepIncompatible)
    THEN "Environment" ELSE "Continue"

\* A validation that accepts every interpreter.
ValidateNothing(found, source) == "Ok"

\* validate_project_requires_python: Ok, or the error of the request's source.
ValidateProjectRequiresPython(found, source) ==
    CASE found = "ok" -> "Ok"
      [] source = "UserRequest" -> "RequestedPythonProjectIncompatibility"
      [] source = "DotPythonVersion" -> "DotPythonVersionProjectIncompatibility"
      [] OTHER -> "RequiresPythonProjectIncompatibility"

\* validate_script_requires_python.
ValidateScriptRequiresPython(found, source) ==
    CASE found = "ok" -> "Ok"
      [] source = "UserRequest" -> "RequestedPythonScriptIncompatibility"
      [] source = "DotPythonVersion" -> "DotPythonVersionScriptIncompatibility"
      [] OTHER -> "RequiresPythonScriptIncompatibility"

\* The errors of the two validations.
IncompatibilityErrors ==
    {ValidateProjectRequiresPython("incompatible", src) : src \in Sources}
    \cup {ValidateScriptRequiresPython("incompatible", src) : src \in Sources}

\* ProjectEnvironment::get_or_init: whether the root is removed before the
\* environment is created, or the factory bails.
ReplaceDecision(d) ==
    CASE HasPyvenvCfg(d) -> "Replace"
      [] ~RootExists(d) -> "Keep"
      [] IsEmptyDir(d) -> "Keep"
      [] OTHER -> "Bail"

\* ScriptInterpreter::root: the active virtual environment when --active is
\* given and VIRTUAL_ENV is set, the script's cache environment otherwise.
ScriptRoot(active, virtualEnv) ==
    IF virtualEnv /\ active THEN "VIRTUAL_ENV" ELSE "cache_env"

\* Workspace::venv: the active virtual environment when --active is given and
\* VIRTUAL_ENV is set, the workspace's environment otherwise.
ProjectRoot(active, virtualEnv) ==
    IF virtualEnv /\ active THEN "VIRTUAL_ENV" ELSE "project_env"

RootOf(target, active, virtualEnv) ==
    IF target = "project" THEN ProjectRoot(active, virtualEnv)
    ELSE ScriptRoot(active, virtualEnv)

\* ProjectInterpreter::lock / ScriptInterpreter::lock: the lock file is named
\* by the digest of the workspace path, respectively of the script.
LockKey(target) == target

\* create_venv: a fresh environment built on the discovered interpreter.
NewVenv(found) ==
    [kind |-> "venv", drift |-> FALSE, request |-> TRUE,
     requires |-> (found = "ok"), preference |-> TRUE]

\* The result of get_or_init: the outcome's variant, where its environment is
\* ("root" or a temporary directory) and the path a dry-run outcome carries.
NoOut ==
    [ok |-> FALSE, kind |-> "None", err |-> "None", at |-> "none",
     path |-> "None"]

DryRunKinds == {"WouldReplace", "WouldCreate"}

\* into_environment: the environment of the outcome, or DroppedEnvironment.
IntoEnvironment(out) ==
    IF out.kind \in DryRunKinds THEN "DroppedEnvironment" ELSE "Ok"

\* dry_run_target: the path carried by a dry-run outcome.
DryRunTarget(out) ==
    IF out.kind \in DryRunKinds THEN out.path ELSE "None"

\* A dry run that always reports WouldCreate.
WouldKindCreate(target, d) == "WouldCreate"

\* get_or_init under --dry-run: WouldReplace when the project's root is to be
\* replaced, respectively when the script's root exists.
WouldKind(target, d) ==
    IF target = "project"
    THEN IF ReplaceDecision(d) = "Replace" THEN "WouldReplace" ELSE "WouldCreate"
    ELSE IF RootExists(d) THEN "WouldReplace" ELSE "WouldCreate"

IdleProc ==
    [pc |-> "idle", target |-> "project", held |-> "none",
     seen |-> Dir("absent"), found |-> "notsearched", warning |-> "None",
     replace |-> FALSE, out |-> NoOut, into |-> "None", dryTarget |-> "None"]

Running == {p \in Procs : proc[p].pc # "idle"}

InitEnv ==
    /\ rootDir \in RootDirs
    /\ root \in Venvs \cup OtherDirs
    /\ noSync \in BOOLEAN
    /\ dryRun \in BOOLEAN
    /\ requestSource \in Sources
    /\ envLock = [k \in Targets |-> 0]
    /\ proc = [p \in Procs |-> IdleProc]

\* The function returns: the result is stored and the lock guard dropped.
EnvFinish(p, r, ok, kind, err, at) ==
    /\ proc' = [proc EXCEPT ![p] =
          [r EXCEPT !.pc = "done", !.held = "none",
                    !.out = [ok |-> ok, kind |-> kind, err |-> err, at |-> at,
                             path |-> IF kind \in DryRunKinds THEN rootDir
                                      ELSE "None"]]]
    /\ envLock' = IF r.held = "none" THEN envLock
                  ELSE [envLock EXCEPT ![r.held] = 0]

\* A command calls ProjectEnvironment::get_or_init or
\* ScriptEnvironment::get_or_init for a target that resolves to the root.
EnvStart(p) ==
    /\ proc[p].pc = "idle"
    /\ \A q \in Procs : q < p => proc[q].pc # "idle"
    /\ Cardinality(Running) < inflight
    /\ \E target \in Targets, active, virtualEnv \in BOOLEAN :
        /\ RootOf(target, active, virtualEnv) = rootDir
        /\ proc' = [proc EXCEPT ![p] =
              [IdleProc EXCEPT !.pc = "lock", !.target = target]]
    /\ UNCHANGED <<fsVars, findVars, opVars, dbVars, pyVars, runVars, cfgVars, rootDir, root, noSync, dryRun,
                   requestSource,                    envLock>>

\* The caller of a successful get_or_init asks the outcome for its dry-run
\* target and converts it with into_environment.
EnvTake(p) ==
    /\ proc[p].pc = "done"
    /\ proc[p].out.ok
    /\ proc' = [proc EXCEPT ![p].pc = "taken",
                            ![p].into = IntoEnvironment(proc[p].out),
                            ![p].dryTarget = DryRunTarget(proc[p].out)]
    /\ UNCHANGED <<fsVars, findVars, opVars, dbVars, pyVars, runVars, cfgVars, rootDir, root, noSync, dryRun,
                   requestSource, envLock>>

\* The caller is done with the result; the slot is free again.
EnvRetire(p) ==
    /\ proc[p].pc \in {"done", "taken"}
    /\ proc' = [proc EXCEPT ![p] = IdleProc]
    /\ UNCHANGED <<fsVars, findVars, opVars, dbVars, pyVars, runVars, cfgVars, rootDir, root, noSync, dryRun,
                   requestSource,                    envLock>>

\* get_or_init: acquire the lock file; an error is logged and ignored.
EnvLock(p) ==
    LET key == LockKey(proc[p].target)
    IN
    /\ proc[p].pc = "lock"
    /\ \/ /\ envLock[key] = 0
          /\ envLock' = [envLock EXCEPT ![key] = p]
          /\ proc' = [proc EXCEPT ![p].pc = "discover", ![p].held = key]
       \/ /\ envLock' = envLock
          /\ proc' = [proc EXCEPT ![p].pc = "discover"]
    /\ UNCHANGED <<fsVars, findVars, opVars, dbVars, pyVars, runVars, cfgVars, rootDir, root, noSync, dryRun,
                   requestSource>>

\* ProjectInterpreter::discover / ScriptInterpreter::discover: inspect the
\* root, then find an interpreter and validate it against requires-python.
Discover(p) ==
    LET r == [proc[p] EXCEPT !.seen = root]
        d == IF r.target = "project" THEN ProjectDiscoverRoot(root, noSync)
             ELSE ScriptDiscoverRoot(root, noSync)
    IN
    /\ proc[p].pc = "discover"
    /\ CASE d = "Environment" -> EnvFinish(p, r, TRUE, "Existing", "None", "root")
         [] d = "Continue" ->
            \/ /\ r.target = "project"
               /\ FromRoot(root) = "QueryBrokenSymlink"
               /\ EnvFinish(p, r, FALSE, "None", "Io", "none")
            \/ \E found \in {"none", "ok", "incompatible"},
                  requiresSource \in {"Project", "Script"} :
                 LET r1 == [r EXCEPT !.found = found]
                     v == IF requiresSource = "Project"
                          THEN ValidateProjectRequiresPython(found,
                                                             requestSource)
                          ELSE ValidateScriptRequiresPython(found,
                                                            requestSource)
                 IN /\ r.target = "project" => requiresSource = "Project"
                    /\ IF found = "none"
                       THEN EnvFinish(p, r1, FALSE, "None", "Python", "none")
                       ELSE IF r.target = "project" /\ v # "Ok"
                       THEN EnvFinish(p, r1, FALSE, "None", v, "none")
                       ELSE /\ proc' = [proc EXCEPT ![p] =
                                  [r1 EXCEPT !.pc = "decide", !.warning = v]]
                            /\ envLock' = envLock
         [] OTHER -> EnvFinish(p, r, FALSE, "None", d, "none")
    /\ UNCHANGED <<fsVars, findVars, opVars, dbVars, pyVars, runVars, cfgVars, rootDir, root, noSync, dryRun,
                   requestSource>>

\* get_or_init: decide whether the root is replaced; under --dry-run create the
\* environment in a temporary directory and return.
Decide(p) ==
    LET r == proc[p]
        dec == IF r.target = "project" THEN ReplaceDecision(root) ELSE "Replace"
    IN
    /\ r.pc = "decide"
    /\ \E io \in {"ok", "err"} :
         CASE r.target = "project" /\ (dec = "Bail" \/ io = "err") ->
                EnvFinish(p, r, FALSE, "None", "InvalidProjectEnvironmentDir",
                          "none")
           [] dryRun /\ io = "err" ->
                EnvFinish(p, r, FALSE, "None", "Virtualenv", "none")
           [] dryRun ->
                EnvFinish(p, r, TRUE, WouldKind(r.target, root), "None", "temp")
           [] OTHER ->
                /\ io = "ok"
                /\ proc' = [proc EXCEPT ![p].replace = (dec = "Replace"),
                                        ![p].pc = IF dec = "Replace"
                                                  THEN "remove" ELSE "create"]
                /\ envLock' = envLock
    /\ UNCHANGED <<fsVars, findVars, opVars, dbVars, pyVars, runVars, cfgVars, rootDir, root, noSync, dryRun,
                   requestSource>>

\* get_or_init: remove_virtualenv(root) for a project, remove_dir_all(root)
\* for a script; NotFound is not an error.
Remove(p) ==
    LET r == proc[p]
    IN
    /\ r.pc = "remove"
    /\ \E io \in {"ok", "err"} :
         IF io = "err" \/ root.kind = "file"
         THEN /\ EnvFinish(p, r, FALSE, "None",
                           IF r.target = "project" THEN "Virtualenv" ELSE "Io",
                           "none")
              /\ root' = root
         ELSE /\ root' = Dir("absent")
              /\ envLock' = envLock
              /\ proc' = [proc EXCEPT
                    ![p].pc = "create",
                    ![p].replace = IF r.target = "project" THEN r.replace
                                   ELSE RootExists(root)]
    /\ UNCHANGED <<fsVars, findVars, opVars, dbVars, pyVars, runVars, cfgVars, rootDir, noSync, dryRun,
                   requestSource>>

\* get_or_init: create_venv at the root.
Create(p) ==
    LET r == proc[p]
    IN
    /\ r.pc = "create"
    /\ \E io \in {"ok", "err"} :
         IF io = "err"
         THEN /\ EnvFinish(p, r, FALSE, "None", "Virtualenv", "none")
              /\ root' = root
         ELSE /\ EnvFinish(p, r, TRUE,
                           IF r.replace THEN "Replaced" ELSE "Created",
                           "None", "root")
              /\ root' = NewVenv(r.found)
    /\ UNCHANGED <<fsVars, findVars, opVars, dbVars, pyVars, runVars, cfgVars, rootDir, noSync, dryRun,
                   requestSource>>

EnvNext ==
    \/ \E p \in Procs : EnvStart(p)
    \/ \E p \in Procs : EnvTake(p)
    \/ \E p \in Procs : EnvRetire(p)
    \/ \E p \in Procs : EnvLock(p)
    \/ \E p \in Procs : Discover(p)
    \/ \E p \in Procs : Decide(p)
    \/ \E p \in Procs : Remove(p)
    \/ \E p \in Procs : Create(p)

\* ================================================ Python request resolution

PyVersions == 1..NumVersions

NoRequest == [kind |-> "none", v |-> 0]
VersionRequest(v) == [kind |-> "version", v |-> v]
RangeRequest(spec) == [kind |-> "range", v |-> spec]

\* The requests a version file may hold, in order.
FileVersions ==
    UNION {[1..n -> {VersionRequest(v) : v \in PyVersions}] : n \in 0..MaxFileLen}

NoFile == [found |-> FALSE, versions |-> <<>>]
VersionFiles == {NoFile} \cup {[found |-> TRUE, versions |-> vs] : vs \in FileVersions}

\* A requires-python specifier: 0 stands for none.
Specifiers == 0..NumVersions

\* PythonVersionFile::discover: under --no-config the file found is ignored.
DiscoverVersionFile(file, noConfig) == IF noConfig THEN NoFile ELSE file

\* PythonVersionFile::into_version: the first request of the file, if any.
IntoVersion(file) ==
    IF file.versions = <<>> THEN NoRequest ELSE Head(file.versions)

\* A resolution that looks at the version file before the user's request.
WorkspacePythonFileFirst(user, file, requires) ==
    IF file.found
    THEN [source |-> "DotPythonVersion", request |-> IntoVersion(file),
          requires |-> requires]
    ELSE IF user # NoRequest
    THEN [source |-> "UserRequest", request |-> user, requires |-> requires]
    ELSE [source |-> "RequiresPython",
          request |-> IF requires = 0 THEN NoRequest ELSE RangeRequest(requires),
          requires |-> requires]

\* WorkspacePython::from_request, given the version file discovery found.
WorkspacePythonFromRequest(user, file, requires) ==
    IF user # NoRequest
    THEN [source |-> "UserRequest", request |-> user, requires |-> requires]
    ELSE IF file.found
    THEN [source |-> "DotPythonVersion", request |-> IntoVersion(file),
          requires |-> requires]
    ELSE [source |-> "RequiresPython",
          request |-> IF requires = 0 THEN NoRequest ELSE RangeRequest(requires),
          requires |-> requires]

\* ScriptPython::from_request: the script's requires-python replaces the
\* workspace's, and becomes the request when the workspace level gave none.
ScriptPythonFromRequest(user, file, requires, scriptRequires) ==
    LET w == WorkspacePythonFromRequest(user, file, requires)
    IN IF scriptRequires # 0
       THEN [source |-> IF w.request = NoRequest THEN "RequiresPython"
                        ELSE w.source,
             request |-> IF w.request = NoRequest
                         THEN RangeRequest(scriptRequires) ELSE w.request,
             requires |-> scriptRequires,
             requiresSource |-> "Script"]
       ELSE [source |-> w.source, request |-> w.request,
             requires |-> w.requires,
             requiresSource |-> IF w.requires = 0 THEN "None" ELSE "Project"]

NoResolution ==
    [source |-> "None", request |-> NoRequest, requires |-> 0,
     requiresSource |-> "None"]

IdlePy ==
    [target |-> "project", user |-> NoRequest, file |-> NoFile,
     noConfig |-> FALSE, workspace |-> 0, script |-> 0, done |-> FALSE,
     res |-> NoResolution]

InitPy ==
    py \in {[IdlePy EXCEPT !.target = t, !.user = u, !.file = f,
                           !.noConfig = n, !.workspace = w, !.script = sc] :
              t \in Targets,
              u \in {NoRequest} \cup {VersionRequest(v) : v \in PyVersions},
              f \in VersionFiles, n \in BOOLEAN, w \in Specifiers,
              sc \in Specifiers}

\* A project command resolves its Python request.
ResolveWorkspace ==
    /\ ~py.done
    /\ py.target = "project"
    /\ py.script = 0
    /\ LET w == WorkspacePythonFromRequest(
                    py.user, DiscoverVersionFile(py.file, py.noConfig),
                    py.workspace)
       IN py' = [py EXCEPT !.done = TRUE,
                           !.res = [source |-> w.source, request |-> w.request,
                                    requires |-> w.requires,
                                    requiresSource |->
                                        IF w.requires = 0 THEN "None"
                                        ELSE "Project"]]
    /\ UNCHANGED <<fsVars, findVars, opVars, dbVars, envVars, runVars, cfgVars>>

\* A script command resolves its Python request.
ResolveScript ==
    /\ ~py.done
    /\ py.target = "script"
    /\ py' = [py EXCEPT !.done = TRUE,
                        !.res = ScriptPythonFromRequest(
                                    py.user,
                                    DiscoverVersionFile(py.file, py.noConfig),
                                    py.workspace, py.script)]
    /\ UNCHANGED <<fsVars, findVars, opVars, dbVars, envVars, runVars, cfgVars>>

PyNext == ResolveWorkspace \/ ResolveScript

\* ============================================================ uv run

\* The target of `uv run`: its name (no target at all, `-`, `python` in two
\* spellings, a string that starts with http:// or https://, any other
\* string), the extension of the path it names and what is at that path:
\*   absent   nothing                     file     a regular file
\*   zipapp   a zip file holding __main__.py
\*   dir      a directory                 package  a directory with __main__.py
\*   error    the path cannot be examined
TargetExts == {"", "py", "PY", "pyc", "pyw", "txt"}
TargetFs == {"absent", "file", "zipapp", "dir", "package", "error"}

RunTargets ==
    {[name |-> n, ext |-> "", fs |-> f] :
        n \in {"none", "-", "python", "Python"}, f \in TargetFs}
    \cup {[name |-> n, ext |-> e, fs |-> f] :
             n \in {"http://", "https://", "cmd"}, e \in TargetExts,
             f \in TargetFs}

\* eq_ignore_ascii_case compares the ASCII lower-case forms.
AsciiLower(str) ==
    CASE str = "Python" -> "python"
      [] str = "PY" -> "py"
      [] OTHER -> str

\* target_path.starts_with("http://") || target_path.starts_with("https://")
IsHttpTarget(t) == t.name \in {"http://", "https://"}

\* target_path.try_exists()
TryExists(t) ==
    CASE t.fs = "absent" -> "Ok(false)"
      [] t.fs = "error" -> "Err"
      [] OTHER -> "Ok(true)"

\* target_path.metadata(): is_file, is_dir; an error gives neither.
IsFile(t) == t.fs \in {"file", "zipapp"}
IsDir(t) == t.fs \in {"dir", "package"}

\* is_python_zipapp
IsPythonZipapp(t) == t.fs = "zipapp"

NoCommand == [ok |-> FALSE, kind |-> "None", err |-> "None"]
Command(kind) == [ok |-> TRUE, kind |-> kind, err |-> "None"]
CommandError(err) == [ok |-> FALSE, kind |-> "None", err |-> err]

\* A from_args that takes `-` for a stdin script whatever the flags.
FromArgsStdinAlways(t, module, script, guiScript, unix, io) ==
    IF AsciiLower(t.name) = "-"
    THEN Command(IF guiScript THEN "PythonGuiStdin" ELSE "PythonStdin")
    ELSE Command("External")

\* RunCommand::from_args. `io` is whether reading stdin, respectively fetching
\* the URL, succeeds.
FromArgs(t, module, script, guiScript, unix, io) ==
    IF t.name = "none" THEN Command("Empty")
    ELSE IF AsciiLower(t.name) = "-"
    THEN IF io = "err" THEN CommandError("Io")
         ELSE IF module THEN CommandError("ModuleFromStdin")
         ELSE IF guiScript THEN Command("PythonGuiStdin")
         ELSE Command("PythonStdin")
    ELSE IF IsHttpTarget(t) /\ (~unix \/ TryExists(t) = "Ok(false)")
    THEN IF io = "err" THEN CommandError("Io") ELSE Command("PythonRemote")
    ELSE IF module THEN Command("PythonModule")
    ELSE IF guiScript THEN Command("PythonGuiScript")
    ELSE IF script THEN Command("PythonScript")
    ELSE IF AsciiLower(t.name) = "python" THEN Command("Python")
    ELSE IF AsciiLower(t.ext) \in {"py", "pyc"} /\ IsFile(t)
    THEN Command("PythonScript")
    ELSE IF AsciiLower(t.ext) = "pyw" /\ IsFile(t)
    THEN Command("PythonGuiScript")
    ELSE IF IsDir(t) /\ t.fs = "package" THEN Command("PythonPackage")
    ELSE IF IsFile(t) /\ IsPythonZipapp(t) THEN Command("PythonZipapp")
    ELSE Command("External")

IdleCmd ==
    [target |-> [name |-> "none", ext |-> "", fs |-> "absent"],
     module |-> FALSE, script |-> FALSE, guiScript |-> FALSE, unix |-> TRUE,
     io |-> "ok", done |-> FALSE, res |-> NoCommand]

\* Every invocation: a target, the three flags, the platform. Off Unix a
\* string that starts with http:// names no path that could exist.
InitCmd ==
    cmd \in {c \in [target : RunTargets, module : BOOLEAN, script : BOOLEAN,
                    guiScript : BOOLEAN, unix : BOOLEAN, io : {"ok", "err"},
                    done : {FALSE}, res : {NoCommand}] :
                (~c.unix /\ IsHttpTarget(c.target)) =>
                    c.target.fs \in {"absent", "error"}}

\* uv run calls RunCommand::from_args.
Classify ==
    /\ ~cmd.done
    /\ cmd' = [cmd EXCEPT !.done = TRUE,
                          !.res = FromArgs(cmd.target, cmd.module, cmd.script,
                                           cmd.guiScript, cmd.unix, cmd.io)]
    /\ UNCHANGED <<fsVars, findVars, opVars, dbVars, envVars, pyVars, cfgVars, chain, ov>>

\* The next invocation.
NextCommand ==
    /\ cmd.done
    /\ cmd' = [cmd EXCEPT !.done = FALSE, !.res = NoCommand]
    /\ UNCHANGED <<fsVars, findVars, opVars, dbVars, envVars, pyVars, cfgVars, chain, ov>>

CmdNext == Classify \/ NextCommand

\* The recursion depth is a u32; U32Max stands for its largest value.
RecursionDepths == 0..U32Max

\* recursion_depth + 1 overflows: a build with overflow checks panics, a
\* build without them wraps.
Overflows(d) == d = U32Max

WrappingIncrement(d) == (d + 1) % (U32Max + 1)

\* status: "running" (this invocation is about to start), "guidance" (it
\* failed with the shebang hint), "panic", "exited" (its child was no uv run).
\* depth is UV_RUN_RECURSION_DEPTH as this invocation sees it, parent the
\* depth its parent read, spawned the number of children spawned so far.
IdleChain ==
    [max |-> 0, depth |-> 0, parent |-> 0, spawned |-> 0,
     overflowChecks |-> FALSE, status |-> "exited"]

\* The outermost invocation: any limit, any value of the variable (0 when
\* unset), either build.
InitChain ==
    chain \in [max : RecursionDepths, depth : RecursionDepths, parent : {0},
               spawned : {0}, overflowChecks : BOOLEAN, status : {"running"}]

\* run: read the depth and fail when it exceeds the limit; otherwise spawn
\* the command with the depth incremented. The command is again `uv run`
\* (nested) or another program.
Run ==
    /\ chain.status = "running"
    /\ chain.spawned <= U32Max + 1
    /\ IF chain.depth > chain.max
       THEN chain' = [chain EXCEPT !.status = "guidance"]
       ELSE IF chain.overflowChecks /\ Overflows(chain.depth)
       THEN chain' = [chain EXCEPT !.status = "panic"]
       ELSE \E nested \in BOOLEAN :
                      chain' = [chain EXCEPT
                          !.depth = WrappingIncrement(chain.depth),
                          !.parent = chain.depth,
                          !.spawned = chain.spawned + 1,
                          !.status = IF nested THEN "running" ELSE "exited"]
    /\ UNCHANGED <<fsVars, findVars, opVars, dbVars, envVars, pyVars, cfgVars, cmd, ov>>

ChainNext == Run

\* ------------------------------------------------- the ephemeral overlay

\* The environments of one run: the --with requirements environment, the
\* base environment and the ephemeral overlay.
Lower == {"with", "base"}
Areas == Lower \cup {"overlay"}
EntryNames == {"a", "b"}

\* Permission bits of a script, beyond the ones every script has.
PermBits == {"g+w", "o+x"}

\* An entry of a scripts directory: nothing, a script that starts with the
\* shebang (on Windows: a launcher) of its environment's Python, a file
\* without it, or something that is no regular file.
NoEntry ==
    [kind |-> "absent", from |-> "none", python |-> "none", shebang |-> FALSE,
     mode |-> {}]

Script(env, mode, unix) ==
    [kind |-> "script", from |-> env, python |-> env, shebang |-> unix,
     mode |-> mode]

Other(kind) == [NoEntry EXCEPT !.kind = kind]

Entries(env, mode, unix) ==
    {NoEntry, Script(env, mode, unix), Other("binary"), Other("link")}

\* A can_skip_ephemeral that skips whenever the requirements are satisfied.
CanSkipEphemeralIgnoringReinstall(req, reinstall) == req = "satisfied"

\* can_skip_ephemeral: no reinstall is asked for and the base environment
\* satisfies the requirements ("unsatisfied", or "error" when that cannot be
\* told, otherwise).
CanSkipEphemeral(req, reinstall) == ~reinstall /\ req = "satisfied"

\* A copy without create_new: an existing target is overwritten.
CopyEntrypointOverwrite(src, tgt, env, unix, umask) ==
    IF src.kind # "script" THEN tgt
    ELSE [kind |-> "script", from |-> env, python |-> "overlay",
          shebang |-> unix, mode |-> IF unix THEN src.mode \ umask ELSE {}]

\* copy_entrypoint and the caller's handling of AlreadyExists: the entry at
\* the target afterwards. A source without the expected shebang (launcher) is
\* skipped; the copy is created with create_new and, on Unix, with the
\* source's mode, which open(2) filters by the umask.
CopyEntrypoint(src, tgt, env, unix, umask) ==
    IF src.kind # "script" THEN tgt
    ELSE IF tgt.kind # "absent" THEN tgt
    ELSE [kind |-> "script", from |-> env, python |-> "overlay",
          shebang |-> unix, mode |-> IF unix THEN src.mode \ umask ELSE {}]

\* A construction that writes into the base environment.
TargetAreaBase(env) == "base"

\* The area a copy or link made for the overlay is written to:
\* ephemeral_env.scripts(), ephemeral_env.sys_prefix().
TargetArea(env) == "overlay"

IdleOv ==
    [pc |-> "spawn", stage |-> "with", req |-> "none", reinstall |-> FALSE,
     unix |-> TRUE, umask |-> {}, mode |-> {},
     scripts |-> [a \in Areas |-> [n \in EntryNames |-> NoEntry]],
     data |-> [a \in Areas |-> "absent"],
     requirementsEnv |-> FALSE, ephemeralEnv |-> FALSE, site |-> FALSE,
     parent |-> FALSE, interpreter |-> "base", again |-> FALSE,
     upgrade |-> FALSE, sourceTrees |-> FALSE, sufficient |-> TRUE,
     didCanSkip |-> FALSE, canSkip |-> FALSE,
     didUpdate |-> FALSE, updateSkipped |-> FALSE]

\* One run: its requirements, the platform, the umask, and what the two
\* lower environments hold (the --with environment as it will be synced).
InitOv ==
    \E req \in {"none", "satisfied", "unsatisfied", "error"},
       reinstall, unix \in BOOLEAN,
       umask \in {{}, {"g+w"}}, mode \in {{"o+x"}, {"g+w", "o+x"}},
       dw \in {"absent", "dir", "file"}, db \in {"absent", "dir"} :
      \E sw \in [EntryNames -> Entries("with", mode, unix)],
         sb \in [EntryNames -> Entries("base", mode, unix) \ {Other("link")}] :
        ov = [IdleOv EXCEPT
                !.pc = "start", !.req = req, !.reinstall = reinstall,
                !.unix = unix, !.umask = umask, !.mode = mode,
                !.scripts = [a \in Areas |->
                               CASE a = "with" -> sw
                                 [] a = "base" -> sb
                                 [] OTHER -> [n \in EntryNames |-> NoEntry]],
                !.data = [a \in Areas |->
                            CASE a = "with" -> dw
                              [] a = "base" -> db
                              [] OTHER -> "absent"]]

\* run: read the requirements, sync the --with environment unless it can be
\* skipped, and create the ephemeral environment when there is one.
Prepare ==
    /\ ov.pc = "start"
    /\ \E fail \in {"none", "from_spec", "venv_dir", "create_venv"} :
         LET needed == ov.req # "none"
                       /\ ~CanSkipEphemeral(ov.req, ov.reinstall)
         IN IF ~needed
            THEN /\ fail = "none"
                 /\ ov' = [ov EXCEPT !.pc = "spawn"]
            ELSE IF fail = "from_spec"
            THEN ov' = [ov EXCEPT !.pc = "failed"]
            ELSE IF fail # "none"
            THEN ov' = [ov EXCEPT !.pc = "failed", !.requirementsEnv = TRUE]
            ELSE ov' = [ov EXCEPT !.pc = "mirror", !.stage = "with",
                                  !.requirementsEnv = TRUE,
                                  !.ephemeralEnv = TRUE]
    /\ UNCHANGED <<fsVars, findVars, opVars, dbVars, envVars, pyVars, cfgVars, cmd, chain>>

\* run, one round of the loop over [requirements_env, base]: copy each
\* entrypoint of the environment and link its data directory; before the
\* first round, write the site stub. `seen` are the entries handled before
\* the step that fails.
Mirror(env) ==
    /\ ov.pc = "mirror"
    /\ ov.stage = env
    /\ \E fail \in {"none", "set_overlay", "scripts", "link"},
          seen \in SUBSET EntryNames :
         LET area == TargetArea(env)
             copied == [n \in EntryNames |->
                          IF n \in seen /\ ov.scripts[env][n].kind # "link"
                          THEN CopyEntrypoint(ov.scripts[env][n],
                                              ov.scripts[area][n], env,
                                              ov.unix, ov.umask)
                          ELSE ov.scripts[area][n]]
             linked == IF ov.data[env] = "dir" /\ ov.data[area] = "absent"
                       THEN env ELSE ov.data[area]
         IN /\ fail = "set_overlay" => env = "with" /\ seen = {}
            /\ fail = "scripts" => seen # EntryNames
            /\ fail \in {"none", "link"} => seen = EntryNames
            /\ ov' = [ov EXCEPT
                  !.pc = IF fail # "none" THEN "failed"
                         ELSE IF env = "with" THEN "mirror" ELSE "finish",
                  !.stage = IF fail = "none" THEN "base" ELSE env,
                  !.site = fail # "set_overlay",
                  !.scripts[area] = IF fail = "set_overlay"
                                    THEN ov.scripts[area] ELSE copied,
                  !.data[area] = IF fail = "none" THEN linked
                                 ELSE ov.data[area]]
    /\ UNCHANGED <<fsVars, findVars, opVars, dbVars, envVars, pyVars, cfgVars, cmd, chain>>

\* run: record the parent environment in the overlay's pyvenv.cfg; the
\* command then runs with the overlay's interpreter.
FinishOverlay ==
    /\ ov.pc = "finish"
    /\ \E fail \in BOOLEAN :
         ov' = IF fail THEN [ov EXCEPT !.pc = "failed"]
               ELSE [ov EXCEPT !.pc = "spawn", !.parent = TRUE,
                               !.interpreter = "overlay"]
    /\ UNCHANGED <<fsVars, findVars, opVars, dbVars, envVars, pyVars, cfgVars, cmd, chain>>

\* The copy of the entrypoints of both environments is run once more over
\* the finished overlay.
CopyAgain ==
    /\ ov.pc = "spawn"
    /\ ov.ephemeralEnv
    /\ ~ov.again
    /\ LET first == [n \in EntryNames |->
                       IF ov.scripts["with"][n].kind # "link"
                       THEN CopyEntrypoint(ov.scripts["with"][n],
                                           ov.scripts[TargetArea("with")][n],
                                           "with", ov.unix, ov.umask)
                       ELSE ov.scripts[TargetArea("with")][n]]
           second == [n \in EntryNames |->
                        IF ov.scripts["base"][n].kind # "link"
                        THEN CopyEntrypoint(ov.scripts["base"][n], first[n],
                                            "base", ov.unix, ov.umask)
                        ELSE first[n]]
       IN ov' = [ov EXCEPT !.again = TRUE,
                           !.scripts[TargetArea("base")] = second]
    /\ UNCHANGED <<fsVars, findVars, opVars, dbVars, envVars, pyVars, cfgVars, cmd, chain>>

OvNext ==
    \/ Prepare
    \/ \E env \in Lower : Mirror(env)
    \/ FinishOverlay
    \/ CopyAgain

\* ========================================================= config settings

\* Keys are strings; the map is a BTreeMap, which keeps its entries in the
\* order of the keys. The numbers stand for keys in that order.
Keys == {1, 2}
Strings == {"x", "y"}

\* ConfigSettingValue::String(s), ConfigSettingValue::List(values)
StringValue(str) == [shape |-> "String", items |-> <<str>>]
ListValue(values) == [shape |-> "List", items |-> values]

ConfigSettingValues ==
    {StringValue(str) : str \in Strings}
    \cup {ListValue(values) :
             values \in UNION {[1..n -> Strings] : n \in 0..MaxListLen}}

\* The entries of a map, as the BTreeMap iterates over them.
RECURSIVE EntriesOf(_, _)
EntriesOf(f, S) ==
    IF S = {} THEN <<>>
    ELSE LET k == CHOOSE k \in S : \A j \in S : k <= j
         IN <<[key |-> k, value |-> f[k]]>> \o EntriesOf(f, S \ {k})

\* Every ConfigSettings over the keys.
AllConfigSettings ==
    UNION {{EntriesOf(f, S) : f \in [S -> ConfigSettingValues]} :
              S \in SUBSET Keys}

KeysOf(config) == [i \in 1..Len(config) |-> config[i].key]

Contains(config, key) == \E i \in 1..Len(config) : config[i].key = key

Get(config, key) ==
    config[CHOOSE i \in 1..Len(config) : config[i].key = key].value

\* A map that keeps its entries in the order of their insertion.
InsertLast(config, key, value) ==
    IF Contains(config, key)
    THEN [i \in 1..Len(config) |->
             IF config[i].key = key THEN [key |-> key, value |-> value]
             ELSE config[i]]
    ELSE Append(config, [key |-> key, value |-> value])

\* BTreeMap::insert, Entry::insert: the entry takes its place in key order.
Insert(config, key, value) ==
    SelectSeq(config, LAMBDA e : e.key < key)
    \o <<[key |-> key, value |-> value]>>
    \o SelectSeq(config, LAMBDA e : e.key > key)

\* A merge of values that puts a left string behind the right list.
MergeValueAppend(existing, value) ==
    IF existing.shape = "String" /\ value.shape = "List"
    THEN ListValue(value.items \o existing.items)
    ELSE ListValue(existing.items \o value.items)

\* ConfigSettings::merge, the occupied entry: the four combinations of shapes.
MergeValue(existing, value) ==
    IF existing.shape = "String"
    THEN IF value.shape = "String"
         THEN ListValue(<<existing.items[1], value.items[1]>>)
         ELSE ListValue(<<existing.items[1]>> \o value.items)
    ELSE IF value.shape = "String"
         THEN ListValue(Append(existing.items, value.items[1]))
         ELSE ListValue(existing.items \o value.items)

\* A merge in which the values of `config` take precedence: an entry of
\* `other` is taken only for a key that `config` does not have.
RECURSIVE MergePrecedence(_, _)
MergePrecedence(config, other) ==
    IF other = <<>> THEN config
    ELSE LET e == Head(other)
         IN MergePrecedence(IF Contains(config, e.key) THEN config
                            ELSE Insert(config, e.key, e.value),
                            Tail(other))

\* ConfigSettings::merge: the entries of `other` go into `config` one by one.
RECURSIVE Merge(_, _)
Merge(config, other) ==
    IF other = <<>> THEN config
    ELSE LET e == Head(other)
         IN Merge(IF Contains(config, e.key)
                  THEN Insert(config, e.key,
                              MergeValue(Get(config, e.key), e.value))
                  ELSE Insert(config, e.key, e.value),
                  Tail(other))

\* A serializer that writes a list of one string as that string.
SerializeValueFlat(value) ==
    IF value.shape = "String" \/ Len(value.items) = 1
    THEN <<"str", value.items[1]>>
    ELSE <<"seq", value.items>>

\* Serialize for ConfigSettingValue: serialize_str or collect_seq.
SerializeValue(value) ==
    IF value.shape = "String" THEN <<"str", value.items[1]>>
    ELSE <<"seq", value.items>>

\* Serialize for ConfigSettings: serialize_map over the entries in order.
Serialize(config) ==
    [i \in 1..Len(config) |-> <<config[i].key, SerializeValue(config[i].value)>>]

\* Deserialize for ConfigSettingValue: visit_str or visit_seq.
DeserializeValue(token) ==
    IF token[1] = "str" THEN StringValue(token[2]) ELSE ListValue(token[2])

\* Deserialize for ConfigSettings: visit_map inserts entry after entry.
RECURSIVE Deserialize(_, _)
Deserialize(config, entries) ==
    IF entries = <<>> THEN config
    ELSE Deserialize(Insert(config, Head(entries)[1],
                            DeserializeValue(Head(entries)[2])),
                     Tail(entries))

IdleCs ==
    [left |-> <<>>, right |-> <<>>, merged |-> <<>>, parsed |-> <<>>,
     didMerge |-> FALSE, didParse |-> FALSE,
     entries |-> <<>>, collected |-> <<>>, didCollect |-> FALSE,
     serialized |-> <<>>, didSerialize |-> FALSE,
     xs |-> <<>>, ys |-> <<>>, zs |-> <<>>,
     each |-> <<>>, chained |-> <<>>, didChain |-> FALSE,
     both |-> <<>>, nested |-> <<>>, didBoth |-> FALSE]

InitCs ==
    cs \in {[IdleCs EXCEPT !.left = a, !.right = b] :
               a \in AllConfigSettings, b \in AllConfigSettings}

\* left.merge(right)
MergeSettings ==
    /\ ~cs.didMerge
    /\ cs' = [cs EXCEPT !.didMerge = TRUE, !.merged = Merge(cs.left, cs.right)]
    /\ UNCHANGED <<fsVars, findVars, opVars, dbVars, envVars, pyVars, runVars>>

\* The left settings are serialized and parsed back.
RoundTrip ==
    /\ ~cs.didParse
    /\ cs' = [cs EXCEPT !.didParse = TRUE,
                        !.parsed = Deserialize(<<>>, Serialize(cs.left))]
    /\ UNCHANGED <<fsVars, findVars, opVars, dbVars, envVars, pyVars, runVars>>

CsNext == MergeSettings \/ RoundTrip

\* -- ConfigSettings::from_iter: collecting `--config-setting KEY=VALUE` entries

\* A ConfigSettingEntry { key, value }.
ConfigSettingEntries == [key : Keys, value : Strings]

EntryLists ==
    UNION {[1..n -> ConfigSettingEntries] : n \in 0..MaxEntries}

\* The Occupied arm with the new value put in front of the ones seen before.
CollectValuePrepend(existing, value) ==
    ListValue(<<value>> \o existing.items)

\* The Occupied arm: a String becomes the two-element List [existing, value],
\* a List has the value pushed at its end.
CollectValue(existing, value) ==
    IF existing.shape = "String"
    THEN ListValue(<<existing.items[1], value>>)
    ELSE ListValue(Append(existing.items, value))

\* The loop of from_iter over the entries still to come, `config` being the
\* map built so far.
RECURSIVE Collect(_, _)
Collect(config, entries) ==
    IF entries = <<>> THEN config
    ELSE LET e == Head(entries)
         IN  Collect(
                 IF Contains(config, e.key)
                 THEN Insert(config, e.key, CollectValue(Get(config, e.key), e.value))
                 ELSE Insert(config, e.key, StringValue(e.value)),
                 Tail(entries))

InitCollect ==
    cs \in {[IdleCs EXCEPT !.entries = es] : es \in EntryLists}

\* entries.into_iter().collect::<ConfigSettings>()
CollectSettings ==
    /\ ~cs.didCollect
    /\ cs' = [cs EXCEPT !.didCollect = TRUE,
                        !.collected = Collect(<<>>, cs.entries)]
    /\ UNCHANGED <<fsVars, findVars, opVars, dbVars, envVars, pyVars, runVars>>

\* Serialising what was collected, once it was.
SerializeCollected ==
    /\ cs.didCollect /\ ~cs.didSerialize
    /\ cs' = [cs EXCEPT !.didSerialize = TRUE,
                        !.serialized = Serialize(cs.collected)]
    /\ UNCHANGED <<fsVars, findVars, opVars, dbVars, envVars, pyVars, runVars>>

CollectNext == CollectSettings \/ SerializeCollected

\* -- collecting in parts and merging the parts

PartLists ==
    UNION {[1..n -> ConfigSettingEntries] : n \in 0..MaxPartLen}

LastParts == {<<>>} \cup {<<e>> : e \in ConfigSettingEntries}

InitParts ==
    cs \in {[IdleCs EXCEPT !.xs = xs, !.ys = ys, !.zs = zs] :
               xs \in PartLists, ys \in PartLists, zs \in LastParts}

\* Each part is collected, and so is the chain of the first two.
CollectParts ==
    /\ ~cs.didChain
    /\ cs' = [cs EXCEPT !.didChain = TRUE,
                        !.each = <<Collect(<<>>, cs.xs), Collect(<<>>, cs.ys),
                                   Collect(<<>>, cs.zs)>>,
                        !.chained = Collect(<<>>, cs.xs \o cs.ys)]
    /\ UNCHANGED <<fsVars, findVars, opVars, dbVars, envVars, pyVars, runVars>>

\* The collected parts are merged: the first two, and all three both ways.
MergeParts ==
    /\ cs.didChain /\ ~cs.didBoth
    /\ cs' = [cs EXCEPT !.didBoth = TRUE,
                        !.both = Merge(cs.each[1], cs.each[2]),
                        !.nested = <<Merge(Merge(cs.each[1], cs.each[2]),
                                           cs.each[3]),
                                     Merge(cs.each[1],
                                           Merge(cs.each[2], cs.each[3]))>>]
    /\ UNCHANGED <<fsVars, findVars, opVars, dbVars, envVars, pyVars, runVars>>

PartsNext == CollectParts \/ MergeParts

\* Every List in the settings has at least two elements.
ListsHaveTwo(config) ==
    \A i \in 1..Len(config) :
        config[i].value.shape = "List" => Len(config[i].value.items) >= 2

Normals == {"a", "b"}
Segments == {".", ".."} \cup Normals

\* A path as written: whether it starts with `/`, and its segments.
RawPaths ==
    [abs : BOOLEAN,
     segs : UNION {[1..n -> Segments] : n \in 0..MaxComponents}]

NoPath == [abs |-> FALSE, segs |-> <<>>]

\* Path::components: RootDir ("/") for a leading separator; a `.` is a CurDir
\* component only at the start of a relative path and is left out elsewhere.
Components(path) ==
    LET n == Len(path.segs)
        kept == {i \in 1..n : path.segs[i] # "." \/ (i = 1 /\ ~path.abs)}
        RECURSIVE Pick(_)
        Pick(i) == IF i > n THEN <<>>
                   ELSE IF i \in kept THEN <<path.segs[i]>> \o Pick(i + 1)
                   ELSE Pick(i + 1)
    IN  (IF path.abs THEN <<"/">> ELSE <<>>) \o Pick(1)

\* PathBuf::pop that gives way at the root too.
PopAlways(ret) ==
    [ok |-> TRUE,
     ret |-> IF ret = <<>> \/ ret = <<"/">> THEN ret
             ELSE SubSeq(ret, 1, Len(ret) - 1)]

\* PathBuf::pop: false, with the path as it was, when there is no parent (the
\* path is empty or the root); else the last component goes.
Pop(ret) ==
    IF ret = <<>> \/ ret = <<"/">>
    THEN [ok |-> FALSE, ret |-> ret]
    ELSE [ok |-> TRUE, ret |-> SubSeq(ret, 1, Len(ret) - 1)]

\* The arms of normalize_absolute_path with `.` pushed like a name.
PushComponentAll(ret, component) == Append(ret, component)

\* The arms of normalize_absolute_path that cannot fail: RootDir and Normal
\* are pushed, CurDir is passed over.
PushComponent(ret, component) ==
    IF component = "." THEN ret ELSE Append(ret, component)

\* The loop of normalize_absolute_path (no Prefix component on Unix).
RECURSIVE NormalizeAbsoluteFrom(_, _)
NormalizeAbsoluteFrom(ret, components) ==
    IF components = <<>> THEN [ok |-> TRUE, err |-> "None", ret |-> ret]
    ELSE IF Head(components) = ".."
    THEN IF Pop(ret).ok
         THEN NormalizeAbsoluteFrom(Pop(ret).ret, Tail(components))
         ELSE [ok |-> FALSE, err |-> "InvalidInput", ret |-> <<>>]
    ELSE NormalizeAbsoluteFrom(PushComponent(ret, Head(components)),
                               Tail(components))

NormalizeAbsolutePath(path) == NormalizeAbsoluteFrom(<<>>, Components(path))

\* fn normalized: inner `..` remove the name before them, leading and
\* above-root `..` stay, `.` goes.
RECURSIVE NormalizedFrom(_, _)
NormalizedFrom(normalized, components) ==
    IF components = <<>> THEN normalized
    ELSE LET component == Head(components)
         IN  NormalizedFrom(
                 IF component = "." THEN normalized
                 ELSE IF component = ".."
                 THEN IF normalized = <<>>
                         \/ normalized[Len(normalized)] \in {"..", "/"}
                      THEN Append(normalized, component)
                      ELSE Pop(normalized).ret
                 ELSE Append(normalized, component),
                 Tail(components))

Normalized(components) == NormalizedFrom(<<>>, components)

\* normalize_path: the path as it is when no component is `.` or `..`.
NormalizePath(components) ==
    IF \A i \in 1..Len(components) : components[i] \notin {".", ".."}
    THEN components
    ELSE Normalized(components)

\* Path::join: an absolute right-hand side replaces the left-hand side.
Join(left, right) ==
    IF right # <<>> /\ right[1] = "/" THEN right ELSE left \o right

\* Path::strip_prefix, by components.
StartsWith(path, prefix) ==
    /\ Len(prefix) <= Len(path)
    /\ SubSeq(path, 1, Len(prefix)) = prefix

\* Path::ancestors, as the lengths of the ancestors: the path, its parents,
\* down to the root for an absolute path and to the empty path else.
AncestorLengths(path) ==
    (IF path # <<>> /\ path[1] = "/" THEN 1 ELSE 0)..Len(path)

RepeatUp(levels) == [i \in 1..levels |-> ".."]

\* relative_to over the components of path and base: both are normalized,
\* the first ancestor of base that is a prefix of path is the common prefix,
\* and the result is one `..` per level of base below it joined with the rest
\* of path.
RelativeTo(rawPath, rawBase) ==
    LET path == NormalizePath(rawPath)
        base == NormalizePath(rawBase)
        common == {n \in AncestorLengths(base) :
                      StartsWith(path, SubSeq(base, 1, n))}
    IN  IF common = {} THEN [ok |-> FALSE, ret |-> <<>>]
        ELSE LET n == CHOOSE m \in common : \A o \in common : o <= m
             IN  [ok |-> TRUE,
                  ret |-> Join(RepeatUp(Len(base) - n),
                               SubSeq(path, n + 1, Len(path)))]

IdlePth ==
    [path |-> NoPath, base |-> NoPath,
     norm |-> [ok |-> FALSE, err |-> "None", ret |-> <<>>],
     rel |-> [ok |-> FALSE, ret |-> <<>>],
     didNorm |-> FALSE, didRel |-> FALSE]

InitNormalize ==
    pth \in {[IdlePth EXCEPT !.path = p] : p \in RawPaths}

InitRelative ==
    pth \in {[IdlePth EXCEPT !.path = p, !.base = b] :
                 p \in RawPaths, b \in RawPaths}

\* normalize_absolute_path(path)
NormalizeAbsolute ==
    /\ ~pth.didNorm
    /\ pth' = [pth EXCEPT !.didNorm = TRUE,
                          !.norm = NormalizeAbsolutePath(pth.path)]
    /\ UNCHANGED <<dbVars, envVars, pyVars, runVars, cfgVars, findVars, opVars, vf>>

\* relative_to(path, base)
Relative ==
    /\ ~pth.didRel
    /\ pth' = [pth EXCEPT !.didRel = TRUE,
                          !.rel = RelativeTo(Components(pth.path),
                                             Components(pth.base))]
    /\ UNCHANGED <<dbVars, envVars, pyVars, runVars, cfgVars, findVars, opVars, vf>>

NormalizeNext == NormalizeAbsolute

RelativeNext == Relative

\* ================================================== Python version files

\* What PythonRequest::parse makes of a line: a version or a bare executable
\* name.
Requests ==
    [kind : {"Version"}, v : 1..2] \cup {[kind |-> "ExecutableName", v |-> 0]}

\* A line of a version file: whether whitespace surrounds it, what is left
\* of it after trimming (nothing, a `#` comment, or the text of a request)
\* and, for the text of a request, the request that parsing the line gives.
NoRequestParsed == [kind |-> "None", v |-> 0]

Lines ==
    [indent : BOOLEAN, body : {"", "#"}, request : {NoRequestParsed}]
    \cup [indent : BOOLEAN, body : {"req"}, request : Requests]

\* What is at the path of a version file: nothing, something that cannot be
\* read, or lines.
Missing == [state |-> "missing", lines |-> <<>>]
Unreadable == [state |-> "unreadable", lines |-> <<>>]
FileContents ==
    {Missing, Unreadable}
    \cup [state : {"file"}, lines : UNION {[1..n -> Lines] : n \in 0..MaxLines}]

\* str::trim.
Trim(line) == line.body

\* The first filter of try_from_path: comments and empty lines are skipped.
IsRequestLine(line) == ~(Trim(line) = "" \/ Trim(line) = "#")

\* A second filter that lets every request through.
KeepRequestAll(request) == TRUE

\* The second filter of try_from_path: ExecutableName requests are dropped
\* (with a warning).
KeepRequest(request) == request.kind # "ExecutableName"

NoVersions == [ok |-> TRUE, some |-> FALSE, err |-> "None", versions |-> <<>>]

\* PythonVersionFile::try_from_path
TryFromPathOf(content) ==
    IF content = Missing THEN NoVersions
    ELSE IF content = Unreadable
    THEN [NoVersions EXCEPT !.ok = FALSE, !.err = "PermissionDenied"]
    ELSE LET lines == SelectSeq(content.lines, IsRequestLine)
             parsed == [i \in 1..Len(lines) |-> lines[i].request]
         IN  [NoVersions EXCEPT !.some = TRUE,
                                !.versions = SelectSeq(parsed, KeepRequest)]

\* PythonVersionFile::from_path
FromPathOf(content) ==
    LET result == TryFromPathOf(content)
    IN  IF result.ok /\ ~result.some
        THEN [NoVersions EXCEPT !.ok = FALSE, !.err = "NotFound"]
        ELSE result

\* PythonVersionFile::version
Version(file) ==
    IF file.versions = <<>> THEN NoRequestParsed ELSE file.versions[1]

\* -- discovery of the version file

VersionFileNames == {".python-version", ".python-versions"}

\* The directories of the machine: the root, /w, /w/p and /o.
TreeDirs == {<<>>, <<"w">>, <<"w", "p">>, <<"o">>}

\* The user's uv configuration directory; not one of the tree.
UserConfigDir == <<"config">>

\* No directory, and no file.
NoDir == <<"None">>
NoVersionFile == [dir |-> NoDir, name |-> "None"]

\* Path::parent
Parent(dir) == IF dir = <<>> THEN NoDir ELSE SubSeq(dir, 1, Len(dir) - 1)

\* Path::ancestors: the directory and its parents up to the root, nearest
\* first; ancestors[i] is i - 1 levels up.
Ancestors(dir) ==
    [i \in 1..(Len(dir) + 1) |-> SubSeq(dir, 1, Len(dir) + 1 - i)]

\* find_in_directory that takes a `.python-version` whenever there is one.
FindInDirectoryVersionFirst(files, dir, preference) ==
    IF ".python-version" \in files[dir]
    THEN [dir |-> dir, name |-> ".python-version"]
    ELSE IF ".python-versions" \in files[dir]
    THEN [dir |-> dir, name |-> ".python-versions"]
    ELSE NoVersionFile

\* find_in_directory: the preferred name first, then the other one; the first
\* that is a file.
FindInDirectory(files, dir, preference) ==
    LET paths == IF preference = "Versions"
                 THEN <<".python-versions", ".python-version">>
                 ELSE <<".python-version", ".python-versions">>
    IN  IF paths[1] \in files[dir] THEN [dir |-> dir, name |-> paths[1]]
        ELSE IF paths[2] \in files[dir] THEN [dir |-> dir, name |-> paths[2]]
        ELSE NoVersionFile

\* A take_while that lets every ancestor through.
TakeWhileAll(ancestors, stop) == ancestors

\* The take_while of find_nearest: the ancestors before the first one that is
\* the parent of stop_discovery_at; all of them when there is no stop
\* directory, when it has no parent or when its parent is not among them.
TakeWhile(ancestors, stop) ==
    LET bound == IF stop = NoDir THEN NoDir ELSE Parent(stop)
        hits == {i \in 1..Len(ancestors) : ancestors[i] = bound}
    IN  IF bound = NoDir \/ hits = {} THEN ancestors
        ELSE SubSeq(ancestors, 1, (CHOOSE i \in hits : \A j \in hits : i <= j) - 1)

\* find_nearest: the first of the ancestors taken that holds a version file.
FindNearest(files, dir, stop, preference) ==
    LET walk == TakeWhile(Ancestors(dir), stop)
        found == {i \in 1..Len(walk) :
                     FindInDirectory(files, walk[i], preference) # NoVersionFile}
    IN  IF found = {} THEN NoVersionFile
        ELSE FindInDirectory(files,
                             walk[CHOOSE i \in found : \A j \in found : i <= j],
                             preference)

\* find_global: the user's configuration directory, when there is one.
FindGlobal(files, hasConfigDir, preference) ==
    IF ~hasConfigDir THEN NoVersionFile
    ELSE FindInDirectory(files, UserConfigDir, preference)

\* PythonVersionFile::discover, up to the path it hands to try_from_path:
\* the local file unless no_local, else the global one; nothing at all under
\* no_config.
DiscoverPath(files, hasConfigDir, dir, stop, preference, noLocal, noConfig) ==
    LET local == IF noLocal THEN NoVersionFile
                 ELSE FindNearest(files, dir, stop, preference)
        path == IF local # NoVersionFile THEN local
                ELSE FindGlobal(files, hasConfigDir, preference)
    IN  IF path = NoVersionFile \/ noConfig THEN NoVersionFile ELSE path

IdleVf ==
    [content |-> Missing, tried |-> NoVersions, read |-> NoVersions,
     didTry |-> FALSE, didRead |-> FALSE,
     files |-> [d \in TreeDirs \cup {UserConfigDir} |-> {}],
     hasConfigDir |-> FALSE,
     dir |-> <<>>, stop |-> NoDir, preference |-> "Version",
     noLocal |-> FALSE, noConfig |-> FALSE,
     found |-> NoVersionFile, didDiscover |-> FALSE]

InitRead ==
    vf \in {[IdleVf EXCEPT !.content = c] : c \in FileContents}

InitDiscover ==
    vf \in {[IdleVf EXCEPT !.files = m.files, !.hasConfigDir = m.has,
                           !.dir = d, !.stop = s,
                           !.preference = p, !.noLocal = l, !.noConfig = c] :
                m \in {g \in [has : BOOLEAN,
                              files : [TreeDirs \cup {UserConfigDir} ->
                                          SUBSET VersionFileNames]] :
                          ~g.has => g.files[UserConfigDir] = {}},
                d \in TreeDirs, s \in TreeDirs \cup {NoDir},
                p \in {"Version", "Versions"},
                l \in BOOLEAN, c \in BOOLEAN}

\* PythonVersionFile::try_from_path(path)
TryFromPath ==
    /\ ~vf.didTry
    /\ vf' = [vf EXCEPT !.didTry = TRUE, !.tried = TryFromPathOf(vf.content)]
    /\ UNCHANGED <<dbVars, envVars, pyVars, runVars, cfgVars, findVars, opVars, pth>>

\* PythonVersionFile::from_path(path)
FromPath ==
    /\ ~vf.didRead
    /\ vf' = [vf EXCEPT !.didRead = TRUE, !.read = FromPathOf(vf.content)]
    /\ UNCHANGED <<dbVars, envVars, pyVars, runVars, cfgVars, findVars, opVars, pth>>

\* PythonVersionFile::discover(working_directory, options); every version
\* file of the tree can be read, so that try_from_path gives the file at the
\* path found.
DiscoverFile ==
    /\ ~vf.didDiscover
    /\ vf' = [vf EXCEPT !.didDiscover = TRUE,
                        !.found = DiscoverPath(vf.files, vf.hasConfigDir,
                                               vf.dir, vf.stop,
                                               vf.preference, vf.noLocal,
                                               vf.noConfig)]
    /\ UNCHANGED <<dbVars, envVars, pyVars, runVars, cfgVars, findVars, opVars, pth>>

ReadNext == TryFromPath \/ FromPath

DiscoverNext == DiscoverFile

\* ================================================== interpreter discovery

\* The sources that hold at most one interpreter, in the order of the search;
\* the directories of PATH follow them.
SingleSources ==
    <<"ParentInterpreter", "ActiveEnvironment", "CondaPrefix",
      "DiscoveredEnvironment", "Managed">>

SourceNames == {SingleSources[i] : i \in 1..Len(SingleSources)}

\* Any minor, any patch.
AnyPart == 0

\* What a source holds: nothing, an executable whose query fails, a Python 2
\* (whose query fails in its own way) or an interpreter 3.minor.patch.
NoInterpreter == [state |-> "absent", minor |-> 0, patch |-> 0]
BrokenExecutable == [state |-> "broken", minor |-> 0, patch |-> 0]
Python2 == [state |-> "python2", minor |-> 0, patch |-> 0]
Interpreter(minor, patch) == [state |-> "ok", minor |-> minor, patch |-> patch]

\* A request: Default (any minor), 3.minor or 3.minor.patch.
PythonRequests == [minor : {AnyPart, 10, 12}, patch : {AnyPart, 1, 2, 3}]

\* The executables of a machine in the order of the search, each with its
\* source.
Executables(machine) ==
    [i \in 1..Len(SingleSources) |->
        [source |-> SingleSources[i], at |-> machine.single[SingleSources[i]]]]
    \o [i \in 1..Len(machine.path) |->
           [source |-> "SearchPath", at |-> machine.path[i]]]

\* Virtual environments, against system interpreters.
IsVirtual(source) ==
    source \in {"ActiveEnvironment", "CondaPrefix", "DiscoveredEnvironment"}

\* EnvironmentPreference and PythonPreference, as what they let through.
SatisfiesPreferences(source, environments, preference) ==
    /\ environments = "OnlyVirtual" => IsVirtual(source)
    /\ environments = "OnlySystem" => ~IsVirtual(source)
    /\ preference = "OnlySystem" => source # "Managed"

\* A request that any interpreter satisfies.
SatisfiesAny(request, interpreter) == interpreter.state = "ok"

\* The request matches the interpreter's minor and patch, where it names
\* them.
Satisfies(request, interpreter) ==
    /\ interpreter.state = "ok"
    /\ request.minor = AnyPart \/ request.minor = interpreter.minor
    /\ request.patch = AnyPart \/ request.patch = interpreter.patch

NotFound == [kind |-> "NotFound", source |-> "None", index |-> 0,
             interpreter |-> NoInterpreter]

\* The search over the executables from the i-th on: the first that is
\* let through by the preferences, answers the query and satisfies the
\* request; a Python 2 met on the way is reported when nothing is found.
RECURSIVE FindFrom(_, _, _, _, _, _)
FindFrom(executables, i, request, environments, preference, sawPython2) ==
    IF i > Len(executables)
    THEN IF sawPython2 THEN [NotFound EXCEPT !.kind = "QueryError"]
         ELSE NotFound
    ELSE LET e == executables[i]
         IN  IF ~SatisfiesPreferences(e.source, environments, preference)
             THEN FindFrom(executables, i + 1, request, environments,
                           preference, sawPython2)
             ELSE IF Satisfies(request, e.at)
             THEN [kind |-> "Found", source |-> e.source, index |-> i,
                   interpreter |-> e.at]
             ELSE FindFrom(executables, i + 1, request, environments,
                           preference, sawPython2 \/ e.at.state = "python2")

\* find_python_installation
FindPythonInstallation(machine, request, environments, preference) ==
    FindFrom(Executables(machine), 1, request, environments, preference, FALSE)

\* A find_best that settles for what the strict request gives.
FindStrictOnly(machine, request, environments, preference) ==
    FindPythonInstallation(machine, request, environments, preference)

\* find_best_python_installation: the strict request first; when nothing
\* matches and the request names a patch, the request without the patch,
\* over all the sources again.
FindBestPythonInstallation(machine, request, environments, preference) ==
    LET strict == FindPythonInstallation(machine, request, environments,
                                         preference)
    IN  IF strict.kind = "Found" \/ request.patch = AnyPart THEN strict
        ELSE FindPythonInstallation(machine,
                                    [request EXCEPT !.patch = AnyPart],
                                    environments, preference)

NoMachine ==
    [single |-> [n \in SourceNames |-> NoInterpreter],
     path |-> [i \in 1..NumPathEntries |-> NoInterpreter]]

IdleDisc ==
    [machine |-> NoMachine, request |-> [minor |-> AnyPart, patch |-> AnyPart],
     environments |-> "Any", preference |-> "OnlySystem",
     found |-> NotFound, didFind |-> FALSE, didFindBest |-> FALSE]

\* Machines whose interpreters are 3.10.1 and 3.12.1, whose PATH may hold
\* executables that fail to query; requests for any version or for 3.10.
InitFind ==
    disc \in {[IdleDisc EXCEPT !.machine = m, !.request = r,
                               !.environments = e, !.preference = p] :
                 m \in [single : [SourceNames ->
                                     {NoInterpreter, Interpreter(10, 1),
                                      Interpreter(12, 1)}],
                        path : [1..NumPathEntries ->
                                   {NoInterpreter, BrokenExecutable, Python2,
                                    Interpreter(10, 1), Interpreter(12, 1)}]],
                 r \in {q \in PythonRequests :
                           q.minor # 12 /\ q.patch = AnyPart},
                 e \in {"Any", "OnlySystem", "OnlyVirtual"},
                 p \in {"OnlySystem", "Managed"}}

\* Machines whose interpreters are 3.10.1, 3.10.3 and 3.12.1; requests for
\* 3.10.1, 3.10.2 and 3.10.3, with the preferences of the tests.
InitFindBest ==
    disc \in {[IdleDisc EXCEPT !.machine = m, !.request = r] :
                 m \in [single : [SourceNames ->
                                     {NoInterpreter, Interpreter(10, 1),
                                      Interpreter(10, 3), Interpreter(12, 1)}],
                        path : [1..NumPathEntries ->
                                   {NoInterpreter, BrokenExecutable,
                                    Interpreter(10, 1), Interpreter(10, 3),
                                    Interpreter(12, 1)}]],
                 r \in {q \in PythonRequests :
                           q.minor = 10 /\ q.patch # AnyPart}}

\* find_python_installation(request, environments, preference, ..)
FindPython ==
    /\ ~disc.didFind /\ ~disc.didFindBest
    /\ disc' = [disc EXCEPT !.didFind = TRUE,
                            !.found = FindPythonInstallation(
                                          disc.machine, disc.request,
                                          disc.environments, disc.preference)]
    /\ UNCHANGED <<dbVars, envVars, pyVars, runVars, cfgVars, fsVars, opVars>>

\* find_best_python_installation(request, environments, preference, ..)
FindBestPython ==
    /\ ~disc.didFind /\ ~disc.didFindBest
    /\ disc' = [disc EXCEPT !.didFindBest = TRUE,
                            !.found = FindBestPythonInstallation(
                                          disc.machine, disc.request,
                                          disc.environments, disc.preference)]
    /\ UNCHANGED <<dbVars, envVars, pyVars, runVars, cfgVars, fsVars, opVars>>

FindNext == FindPython

FindBestNext == FindBestPython

\* ------------------------------------------ environment factory properties

\* The executions inside the inspect / remove / create section.
InSection ==
    {p \in Procs : proc[p].pc \in {"discover", "decide", "remove", "create"}}

\* C4: no step of the environment factory, for a project or a script target,
\* deletes or changes a root that is a non-empty directory without pyvenv.cfg.
C4_ForeignRootKept == [][root.kind = "foreign" => root' = root]_vars

\* C7: two executions that resolve to the same root are never both inside
\* the inspect / remove / create section.
C7_SectionsSerialized == Cardinality(InSection) <= 1

\* C9: ProjectEnvironment::get_or_init returns Existing exactly when an
\* environment loaded from the root and it passed the four compatibility
\* checks or --no-sync was given; every other success outside --dry-run is
\* Replaced when the root held a pyvenv.cfg and Created otherwise, and the
\* environment returned is the one at the target root.
C9_ProjectOutcome ==
    \A p \in Procs :
        (proc[p].pc = "done" /\ proc[p].target = "project") =>
            LET r == proc[p]
                loads == r.seen.kind = "venv"
                passes == /\ ~r.seen.drift
                          /\ r.seen.request
                          /\ r.seen.requires
                          /\ r.seen.preference
            IN /\ (r.out.ok /\ r.out.kind = "Existing")
                      <=> (loads /\ (passes \/ noSync))
               /\ (r.out.ok /\ r.out.kind # "Existing" /\ ~dryRun) =>
                      /\ r.out.kind = IF HasPyvenvCfg(r.seen) THEN "Replaced"
                                      ELSE "Created"
                      /\ r.out.at = "root"
                      /\ root.kind = "venv"
               /\ (r.out.ok /\ r.out.kind = "Existing") =>
                      /\ r.out.at = "root"
                      /\ root = r.seen

\* C9 (its case): an environment that fails a compatibility check is returned
\* as Existing under --no-sync.
C9_Witness ==
    \E p \in Procs :
        /\ proc[p].pc = "done"
        /\ proc[p].target = "project"
        /\ proc[p].out.kind = "Existing"
        /\ ~proc[p].seen.requires
        /\ noSync

\* C10 (as stated): whenever the interpreter discovered for a new environment
\* does not satisfy requires-python, the factory ends with the typed error of
\* the request's source and the root is as it was found.
C10_TypedErrorNoEnvironment ==
    \A p \in Procs :
        (proc[p].pc = "done" /\ proc[p].found = "incompatible") =>
            /\ ~proc[p].out.ok
            /\ proc[p].out.err \in IncompatibilityErrors
            /\ root = proc[p].seen

\* C10 (amended): for a project target an interpreter that does not satisfy
\* requires-python ends the factory at once with the error that names the
\* request's source, and the root is as it was found; for a script target the
\* same finding is only a warning, never the factory's error, and the factory
\* goes on to replace the environment.
C10_ProjectTypedErrorScriptWarning ==
    \A p \in Procs :
        proc[p].found = "incompatible" =>
            IF proc[p].target = "project"
            THEN /\ proc[p].pc = "done"
                 /\ ~proc[p].out.ok
                 /\ requestSource = "UserRequest" =>
                        proc[p].out.err = "RequestedPythonProjectIncompatibility"
                 /\ requestSource = "DotPythonVersion" =>
                        proc[p].out.err = "DotPythonVersionProjectIncompatibility"
                 /\ requestSource = "RequiresPython" =>
                        proc[p].out.err = "RequiresPythonProjectIncompatibility"
                 /\ root = proc[p].seen
            ELSE /\ proc[p].warning \in IncompatibilityErrors
                 /\ proc[p].out.err \notin IncompatibilityErrors
                 /\ (proc[p].pc = "done" /\ proc[p].out.ok /\ ~dryRun) =>
                        /\ proc[p].out.kind \in {"Created", "Replaced"}
                        /\ root = NewVenv("incompatible")

\* C10 (its case): a project execution has ended with the error that names
\* the version file as the source of the request.
C10_Witness ==
    \E p \in Procs :
        /\ proc[p].pc = "done"
        /\ proc[p].target = "project"
        /\ proc[p].found = "incompatible"
        /\ proc[p].out.err = "DotPythonVersionProjectIncompatibility"

\* The execution ended with an error in the match on from_root, before any
\* interpreter was searched for.
AbortedAtRoot(r) == r.pc = "done" /\ ~r.out.ok /\ r.found = "notsearched"

\* C11 (as stated): of the roots classified as invalid (not a directory,
\* empty directory, missing executable, interpreter not found, broken
\* interpreter symlink), project discovery aborts exactly for the non-empty
\* directory with a missing Python executable.
C11_OnlyMissingExecutableAborts ==
    \A p \in Procs :
        (/\ proc[p].pc = "done"
         /\ proc[p].target = "project"
         /\ proc[p].seen.kind \in {"file", "empty", "foreign", "bare",
                                    "notfound", "symlink"}) =>
            (AbortedAtRoot(proc[p])
                 <=> (/\ IsNonEmptyDir(proc[p].seen)
                      /\ FromRoot(proc[p].seen) = "MissingExecutable"))

\* C11 (amended): project discovery aborts with InvalidProjectEnvironmentDir,
\* leaving the root as found, for a root that is not a directory and for a
\* non-empty directory with a missing executable and no pyvenv.cfg. An empty
\* directory, a missing executable beside a pyvenv.cfg and an interpreter that
\* is not found go on to the interpreter search; a broken interpreter symlink
\* goes on unless the link cannot be read; any other query error aborts with
\* that error. An execution that went on and succeeded outside --dry-run left
\* a fresh environment at the root, Created over an empty directory and
\* Replaced otherwise.
C11_AbortsOnFileOrForeignDir ==
    \A p \in Procs :
        (proc[p].pc = "done" /\ proc[p].target = "project") =>
            LET r == proc[p]
                k == r.seen.kind
            IN /\ k \in {"file", "foreign"} =>
                     /\ AbortedAtRoot(r)
                     /\ r.out.err = "InvalidProjectEnvironmentDir"
                     /\ root = r.seen
               /\ k \in {"empty", "bare", "notfound"} => ~AbortedAtRoot(r)
               /\ k = "symlink" => (AbortedAtRoot(r) => r.out.err = "Io")
               /\ k = "queryfail" =>
                     AbortedAtRoot(r) /\ r.out.err = "Python" /\ root = r.seen
               /\ (/\ k \in {"empty", "bare", "notfound", "symlink"}
                   /\ r.out.ok /\ ~dryRun) =>
                     /\ root = NewVenv(r.found)
                     /\ r.out.kind = IF k = "empty" THEN "Created"
                                      ELSE "Replaced"

\* C11 (its case): discovery has aborted on a root that is a regular file.
C11_Witness ==
    \E p \in Procs :
        /\ proc[p].pc = "done"
        /\ proc[p].target = "project"
        /\ proc[p].seen.kind = "file"
        /\ AbortedAtRoot(proc[p])
        /\ proc[p].out.err = "InvalidProjectEnvironmentDir"

\* C12: under --dry-run no step of the factory changes the target root; a
\* successful dry run has its environment in a temporary directory and is
\* WouldReplace or WouldCreate carrying the target root's path, WouldReplace
\* for exactly the roots over which a run without --dry-run returns Replaced
\* rather than Created; dry_run_target gives the target root's path and
\* into_environment fails with DroppedEnvironment.
C12_DryRunLeavesRoot ==
    /\ [][dryRun => root' = root]_vars
    /\ [](\A p \in Procs :
            (proc[p].pc \in {"done", "taken"} /\ proc[p].out.ok) =>
                LET r == proc[p]
                    replaces == IF r.target = "project" THEN HasPyvenvCfg(r.seen)
                                ELSE RootExists(r.seen)
                IN /\ (dryRun /\ r.out.kind # "Existing") =>
                         /\ r.out.kind \in DryRunKinds
                         /\ r.out.kind = "WouldReplace" <=> replaces
                         /\ r.out.at = "temp"
                         /\ r.out.path = rootDir
                         /\ root = r.seen
                         /\ r.pc = "taken" =>
                                /\ r.dryTarget = rootDir
                                /\ r.into = "DroppedEnvironment"
                   /\ (~dryRun /\ r.out.kind # "Existing") =>
                         /\ r.out.kind \in {"Replaced", "Created"}
                         /\ r.out.kind = "Replaced" <=> replaces
                         /\ r.pc = "taken" =>
                                r.dryTarget = "None" /\ r.into = "Ok")

\* C12 (its case): a dry run over a root that holds an environment has
\* returned WouldReplace and the caller has tried to convert it.
C12_Witness ==
    \E p \in Procs :
        /\ dryRun
        /\ proc[p].pc = "taken"
        /\ proc[p].out.kind = "WouldReplace"
        /\ proc[p].seen.kind = "venv"
        /\ proc[p].into = "DroppedEnvironment"
        /\ root = proc[p].seen

\* ------------------------------------------------------ uv run properties

\* The rule of the list that fires first for an invocation with a target.
\* "No local file of that name" is try_exists() = Ok(false) on Unix and is
\* not examined elsewhere; suffixes compare case-insensitively.
FirstRule(c) ==
    LET t == c.target
    IN CASE AsciiLower(t.name) = "-" -> 1
         [] IsHttpTarget(t) /\ (~c.unix \/ TryExists(t) = "Ok(false)") -> 2
         [] c.module -> 3
         [] c.guiScript -> 4
         [] c.script -> 5
         [] AsciiLower(t.name) = "python" -> 6
         [] IsFile(t) /\ AsciiLower(t.ext) \in {"py", "pyc"} -> 7
         [] IsFile(t) /\ AsciiLower(t.ext) = "pyw" -> 8
         [] t.fs = "package" -> 9
         [] t.fs = "zipapp" -> 10
         [] OTHER -> 11

\* The classification each rule gives.
RuleKind(rule, guiScript) ==
    CASE rule = 1 -> IF guiScript THEN "PythonGuiStdin" ELSE "PythonStdin"
      [] rule = 2 -> "PythonRemote"
      [] rule = 3 -> "PythonModule"
      [] rule = 4 -> "PythonGuiScript"
      [] rule = 5 -> "PythonScript"
      [] rule = 6 -> "Python"
      [] rule = 7 -> "PythonScript"
      [] rule = 8 -> "PythonGuiScript"
      [] rule = 9 -> "PythonPackage"
      [] rule = 10 -> "PythonZipapp"
      [] OTHER -> "External"

C14_DepthIncreasesChainEnds ==
    /\ chain.status = "guidance" => chain.depth > chain.max
    /\ chain.status # "panic"
    /\ chain.spawned > 0 => chain.depth = chain.parent + 1
    /\ chain.spawned <= chain.max + 1

\* C15 (as stated): an overlay exists only beside a --with environment and,
\* once the command is about to run, exactly then; with no requirements, or
\* with requirements the base environment satisfies, neither is created and
\* the command runs with the base interpreter.
C15_OverlayIffRequirementsEnv ==
    /\ ov.ephemeralEnv => ov.requirementsEnv
    /\ ov.pc = "spawn" => (ov.ephemeralEnv <=> ov.requirementsEnv)
    /\ (ov.pc # "start" /\ ov.req \in {"none", "satisfied"}) =>
          /\ ~ov.requirementsEnv
          /\ ~ov.ephemeralEnv
          /\ ov.interpreter = "base"

\* C15 (amended): as stated, for requirements the base environment satisfies
\* when no reinstall is asked for; with a reinstall the --with environment
\* and the overlay are created although the requirements are satisfied, and
\* the command runs with the overlay's interpreter.
C15_OverlayUnlessSkipped ==
    /\ ov.ephemeralEnv => ov.requirementsEnv
    /\ ov.pc = "spawn" => (ov.ephemeralEnv <=> ov.requirementsEnv)
    /\ (/\ ov.pc # "start"
        /\ (ov.req = "none" \/ (ov.req = "satisfied" /\ ~ov.reinstall))) =>
          /\ ~ov.requirementsEnv
          /\ ~ov.ephemeralEnv
          /\ ov.interpreter = "base"
    /\ (ov.pc = "spawn" /\ ov.req = "satisfied" /\ ov.reinstall) =>
          /\ ov.requirementsEnv
          /\ ov.ephemeralEnv
          /\ ov.interpreter = "overlay"

\* C15 (its case): the command is about to run on the base interpreter, the
\* requirements being satisfied by the base environment.
C15_Witness ==
    /\ ov.pc = "spawn"
    /\ ov.req = "satisfied"
    /\ ~ov.reinstall
    /\ ~ov.ephemeralEnv
    /\ ov.interpreter = "base"

\* C16: no step of the construction of the overlay, failing ones included,
\* changes the scripts or the data directory of the base environment or of
\* the --with environment.
C16_LowerEnvironmentsKept ==
    [][\A env \in Lower :
          /\ ov'.scripts[env] = ov.scripts[env]
          /\ ov'.data[env] = ov.data[env]]_vars

\* C16 (its case): the construction has failed part-way, after a script of
\* the --with environment was copied into the overlay.
C16_Witness ==
    /\ ov.pc = "failed"
    /\ ov.stage = "with"
    /\ \E n \in EntryNames : ov.scripts["overlay"][n].from = "with"
    /\ \E n \in EntryNames :
          /\ ov.scripts["with"][n].kind = "script"
          /\ ov.scripts["overlay"][n].kind = "absent"

\* C17 (as stated): a name that both lower environments hold has, once both
\* were mirrored, a copy in the overlay that derives from the --with
\* environment; every copy starts with a shebang naming the overlay's Python
\* and has the permission bits of its source; copying again changes nothing.
C17_FirstWriterWins ==
    /\ [](\A n \in EntryNames :
            LET copy == ov.scripts["overlay"][n]
            IN /\ (/\ ov.pc \in {"finish", "spawn"}
                   /\ ov.ephemeralEnv
                   /\ ov.scripts["with"][n].kind \in {"script", "binary"}
                   /\ ov.scripts["base"][n].kind \in {"script", "binary"}
                   /\ copy.kind # "absent") =>
                     copy.from = "with"
               /\ copy.kind # "absent" =>
                     /\ copy.shebang /\ copy.python = "overlay"
                     /\ copy.mode = ov.scripts[copy.from][n].mode)
    /\ [][ov'.again => ov'.scripts = ov.scripts]_vars

\* C17 (amended): a name whose script in the --with environment can be
\* copied (it starts with the shebang of that environment's Python) has a
\* copy that derives from the --with environment, whatever the base
\* environment holds under that name; a name that only the base environment
\* can supply has the base environment's copy. On Unix every copy starts with
\* a shebang naming the overlay's Python and has the permission bits of its
\* source less those the umask clears; on Windows the copy is a launcher for
\* the overlay's Python. Copying again changes nothing.
C17_FirstCopyableWins ==
    /\ [](\A n \in EntryNames :
            LET copy == ov.scripts["overlay"][n]
                with == ov.scripts["with"][n]
                base == ov.scripts["base"][n]
            IN /\ (ov.pc \in {"finish", "spawn"} /\ ov.ephemeralEnv) =>
                     copy.from = IF with.kind = "script" THEN "with"
                                 ELSE IF base.kind = "script" THEN "base"
                                 ELSE "none"
               /\ copy.kind # "absent" =>
                     /\ copy.kind = "script"
                     /\ copy.python = "overlay"
                     /\ copy.shebang = ov.unix
                     /\ ov.unix =>
                           copy.mode = ov.scripts[copy.from][n].mode \ ov.umask)
    /\ [][ov'.again => ov'.scripts = ov.scripts]_vars

\* C17 (its case): both environments hold a script of the same name, the
\* overlay's copy derives from the --with environment, and the copy was run
\* again.
C17_Witness ==
    \E n \in EntryNames :
        /\ ov.again
        /\ ov.scripts["with"][n].kind = "script"
        /\ ov.scripts["base"][n].kind = "script"
        /\ ov.scripts["overlay"][n].from = "with"
        /\ ov.umask # {}

\* ------------------------------------------------ config settings properties

\* C18: settings that were serialized and parsed back equal the original.
C18_RoundTrip == cs.didParse => cs.parsed = cs.left

\* C18 (its case): settings that hold a list of one string beside that
\* string itself have gone through the round trip.
C18_Witness ==
    /\ cs.didParse
    /\ Len(cs.left) = 2
    /\ cs.left[1].value = ListValue(<<"x">>)
    /\ cs.left[2].value = StringValue("x")
    /\ cs.parsed = cs.left

\* The keys of `other` that `config` does not hold, in the order of `other`.
NewKeys(config, other) ==
    KeysOf(SelectSeq(other, LAMBDA e : ~Contains(config, e.key)))

\* C19 (as stated): the keys of the merge are the keys of the left operand
\* in their order, followed by the keys only the right operand holds, in
\* the right operand's order.
C19_LeftKeysThenNewKeys ==
    cs.didMerge =>
        KeysOf(cs.merged) = KeysOf(cs.left) \o NewKeys(cs.left, cs.right)

\* C19 (amended): the keys of the merge are the keys of both operands, each
\* once, in ascending order of the keys; this is the left operand's order
\* followed by the new keys of the right when every new key is greater than
\* every key of the left operand.
C19_KeysAscending ==
    cs.didMerge =>
        /\ {cs.merged[i].key : i \in 1..Len(cs.merged)}
              = {cs.left[i].key : i \in 1..Len(cs.left)}
                \cup {cs.right[i].key : i \in 1..Len(cs.right)}
        /\ \A i, j \in 1..Len(cs.merged) :
              i < j => cs.merged[i].key < cs.merged[j].key
        /\ (\A i \in 1..Len(cs.left), j \in 1..Len(cs.right) :
               ~Contains(cs.left, cs.right[j].key)
                   => cs.left[i].key < cs.right[j].key) =>
              KeysOf(cs.merged) = KeysOf(cs.left) \o NewKeys(cs.left, cs.right)

\* C19 (its case): the right operand has brought a key that is smaller than
\* a key of the left operand.
C19_Witness ==
    /\ cs.didMerge
    /\ KeysOf(cs.left) = <<2>>
    /\ KeysOf(cs.right) = <<1>>
    /\ KeysOf(cs.merged) = <<1, 2>>

ValuesFor(entries, key) ==
    LET own == SelectSeq(entries, LAMBDA e : e.key = key)
    IN  [i \in 1..Len(own) |-> own[i].value]

\* C21: collecting entries gives every key seen once its single string and
\* every key seen more often the list of all its values in arrival order, keys
\* never seen are absent, and the serialized form lists the keys in ascending
\* order whatever the arrival order was.
C21_CollectGroupsInArrivalOrder ==
    /\ cs.didCollect =>
          \A k \in Keys :
              LET values == ValuesFor(cs.entries, k)
              IN  /\ Contains(cs.collected, k) <=> values # <<>>
                  /\ Len(values) = 1 =>
                        Get(cs.collected, k) = StringValue(values[1])
                  /\ Len(values) > 1 => Get(cs.collected, k) = ListValue(values)
    /\ cs.didSerialize =>
          /\ Len(cs.serialized) = Cardinality({k \in Keys : ValuesFor(cs.entries, k) # <<>>})
          /\ \A i, j \in 1..Len(cs.serialized) :
                 i < j => cs.serialized[i][1] < cs.serialized[j][1]

\* The entries [(2,x), (1,y), (2,y), (1,x)]: both keys seen twice, the larger
\* key arriving first, serialized as 1=[y,x], 2=[x,y].
C21_Witness ==
    /\ cs.didSerialize
    /\ cs.entries = <<[key |-> 2, value |-> "x"], [key |-> 1, value |-> "y"],
                      [key |-> 2, value |-> "y"], [key |-> 1, value |-> "x"]>>
    /\ cs.serialized = << <<1, <<"seq", <<"y", "x">> >> >>,
                          <<2, <<"seq", <<"x", "y">> >> >> >>

\* The Normal components of a component sequence, in order.
NormalsOf(components) == SelectSeq(components, LAMBDA c : c \in Normals)

RECURSIVE IsSubsequence(_, _)
IsSubsequence(sub, whole) ==
    IF sub = <<>> THEN TRUE
    ELSE IF whole = <<>> THEN FALSE
    ELSE IF Head(sub) = Head(whole)
    THEN IsSubsequence(Tail(sub), Tail(whole))
    ELSE IsSubsequence(sub, Tail(whole))

\* C22: when normalize_absolute_path succeeds, its output has no `.` and no
\* `..` component and its normal components are normal components of the
\* input, in the same relative order.
C22_OutputHasNoDots ==
    (pth.didNorm /\ pth.norm.ok) =>
        /\ \A i \in 1..Len(pth.norm.ret) : pth.norm.ret[i] \notin {".", ".."}
        /\ IsSubsequence(NormalsOf(pth.norm.ret),
                         NormalsOf(Components(pth.path)))

\* /a/../b normalizes to /b.
C22_Witness ==
    /\ pth.didNorm /\ pth.norm.ok
    /\ pth.path = [abs |-> TRUE, segs |-> <<"a", "..", "b">>]
    /\ pth.norm.ret = <<"/", "b">>

\* Some `..` of the components has, counting from the start up to it, more
\* `..` than names before it: nothing is left for it to remove.
Escapes(components) ==
    \E i \in 1..Len(components) :
        /\ components[i] = ".."
        /\ Cardinality({j \in 1..i : components[j] = ".."})
               > Cardinality({j \in 1..i : components[j] \in Normals})

\* C23: normalize_absolute_path fails, with InvalidInput, exactly when some
\* `..` is met with no normal component left before it to remove, and
\* succeeds for every other path.
C23_FailsIffEscapes ==
    pth.didNorm =>
        /\ ~pth.norm.ok <=> Escapes(Components(pth.path))
        /\ ~pth.norm.ok => pth.norm.err = "InvalidInput"

\* /a/../.. fails with InvalidInput.
C23_Witness ==
    /\ pth.didNorm /\ ~pth.norm.ok /\ pth.norm.err = "InvalidInput"
    /\ pth.path = [abs |-> TRUE, segs |-> <<"a", "..", "..">>]

\* The longest ancestor of the normalized base that is a prefix of the
\* normalized path, as its length.
SharedAncestor(path, base) ==
    CHOOSE n \in AncestorLengths(base) :
        /\ StartsWith(path, SubSeq(base, 1, n))
        /\ \A m \in AncestorLengths(base) :
               StartsWith(path, SubSeq(base, 1, m)) => m <= n

\* C24: whenever relative_to succeeds, base joined with the result is,
\* lexically normalized, the lexically normalized path, and the result is one
\* `..` per component of base below the longest shared ancestor followed by
\* the part of path below that ancestor.
C24_JoinGivesPath ==
    (pth.didRel /\ pth.rel.ok) =>
        LET path == Normalized(Components(pth.path))
            base == Normalized(Components(pth.base))
            n == SharedAncestor(path, base)
        IN  /\ Normalized(Join(Components(pth.base), pth.rel.ret)) = path
            /\ pth.rel.ret = RepeatUp(Len(base) - n)
                                 \o SubSeq(path, n + 1, Len(path))

\* The lines of a file that carry a request other than an executable name.
KeptLines(content) ==
    {i \in 1..Len(content.lines) :
        /\ content.lines[i].body \notin {"", "#"}
        /\ content.lines[i].request.kind # "ExecutableName"}

\* C25: reading a version file gives the requests of its lines in file order,
\* without the lines that are blank or comments after trimming and without
\* the requests that are bare executable names; a file with no line left
\* gives an empty list (version() is None), not an error; a missing file
\* gives None from try_from_path and a NotFound error from from_path.
C25_ReadKeepsRequestsInOrder ==
    /\ (vf.didTry /\ vf.content \notin {Missing, Unreadable}) =>
          LET kept == KeptLines(vf.content)
          IN  /\ vf.tried.ok /\ vf.tried.some
              /\ Len(vf.tried.versions) = Cardinality(kept)
              /\ \A i \in kept :
                     vf.tried.versions[Cardinality({j \in kept : j <= i})]
                         = vf.content.lines[i].request
              /\ kept = {} => Version(vf.tried) = NoRequestParsed
    /\ (vf.didRead /\ vf.content \notin {Missing, Unreadable}) =>
          vf.read = TryFromPathOf(vf.content)
    /\ (vf.didTry /\ vf.content = Missing) => vf.tried.ok /\ ~vf.tried.some
    /\ (vf.didRead /\ vf.content = Missing) =>
          ~vf.read.ok /\ vf.read.err = "NotFound"

\* The lines `# c`, `python`, `3.2` give the one request 3.2; an empty or
\* missing file would not do.
C25_Witness ==
    /\ vf.didTry /\ vf.didRead
    /\ vf.content.state = "file"
    /\ vf.content.lines =
                     <<[indent |-> TRUE, body |-> "#", request |-> NoRequestParsed],
                      [indent |-> FALSE, body |-> "req",
                       request |-> [kind |-> "ExecutableName", v |-> 0]],
                      [indent |-> FALSE, body |-> "req",
                       request |-> [kind |-> "Version", v |-> 2]]>>
    /\ vf.read.versions = <<[kind |-> "Version", v |-> 2]>>

\* dir is the directory `of` or lies below it.
AtOrBelow(dir, of) ==
    Len(of) <= Len(dir) /\ SubSeq(dir, 1, Len(of)) = of

StrictlyAbove(dir, of) == dir # of /\ AtOrBelow(of, dir)

\* The discovery returned a file of the tree, not the user-global one.
FoundLocal == vf.found # NoVersionFile /\ vf.found.dir # UserConfigDir

\* C26: for every working directory and every stop_discovery_at, the local
\* file that discover returns never lies in a directory strictly above
\* stop_discovery_at.
C26_NeverAboveStop ==
    (vf.didDiscover /\ FoundLocal /\ vf.stop # NoDir) =>
        ~StrictlyAbove(vf.found.dir, vf.stop)

\* C26, amended: for every working directory that is stop_discovery_at or
\* lies below it, the local file that discover returns never lies in a
\* directory strictly above stop_discovery_at.
C26_NeverAboveStopFromBelow ==
    (vf.didDiscover /\ FoundLocal /\ vf.stop # NoDir
        /\ AtOrBelow(vf.dir, vf.stop)) =>
        ~StrictlyAbove(vf.found.dir, vf.stop)

\* From /w/p with the stop at /w, no version file in /w/p and one in /w and
\* in the root: the file of /w, the stop directory, is returned.
C26_Witness ==
    /\ vf.didDiscover
    /\ vf.dir = <<"w", "p">> /\ vf.stop = <<"w">>
    /\ vf.files[<<"w", "p">>] = {}
    /\ vf.files[<<"w">>] # {} /\ vf.files[<<>>] # {}
    /\ FoundLocal /\ vf.found.dir = <<"w">>

\* The file find_in_directory is to give for a directory with a version
\* file: the preferred name when both are there, else the one there is.
Preferred(files, dir, preference) ==
    LET first == IF preference = "Versions" THEN ".python-versions"
                 ELSE ".python-version"
    IN  [dir |-> dir,
         name |-> IF first \in files[dir] THEN first
                  ELSE CHOOSE n \in files[dir] : TRUE]

\* What discovery is to return when the directories of `range` are the ones
\* to search: the file of the nearest of them that holds one; the
\* user-global file when there is none or local search is disabled; nothing
\* under no_config.
Expected(range) ==
    LET holding == {d \in range : vf.files[d] # {}}
        nearest == CHOOSE d \in holding : \A e \in holding : Len(e) <= Len(d)
        global == vf.files[UserConfigDir]
    IN  IF vf.noConfig THEN NoVersionFile
        ELSE IF ~vf.noLocal /\ holding # {}
        THEN Preferred(vf.files, nearest, vf.preference)
        ELSE IF global # {}
        THEN Preferred(vf.files, UserConfigDir, vf.preference)
        ELSE NoVersionFile

AncestorsOf(dir) == {d \in TreeDirs : AtOrBelow(dir, d)}

\* C27: discovery returns the file of the nearest ancestor directory that
\* contains either filename, the preference deciding only between the two
\* names inside one directory; the user-global file only when no local file
\* was found or local search is disabled; and nothing under no_config.
C27_NearestAncestor ==
    vf.didDiscover => vf.found = Expected(AncestorsOf(vf.dir))

\* C27, amended: the same with the search ending at stop_discovery_at, for a
\* working directory that is the stop directory or lies below it (or with no
\* stop directory).
C27_NearestAncestorUpToStop ==
    (vf.didDiscover /\ (vf.stop = NoDir \/ AtOrBelow(vf.dir, vf.stop))) =>
        vf.found = Expected({d \in AncestorsOf(vf.dir) :
                                vf.stop = NoDir \/ AtOrBelow(d, vf.stop)})

\* From /w/p with both names in /w and `.python-version` in /w/p and in the
\* user's directory, preferring `.python-versions`: the file of /w/p.
C27_Witness ==
    /\ vf.didDiscover /\ ~vf.noConfig /\ ~vf.noLocal
    /\ vf.dir = <<"w", "p">> /\ vf.stop = <<"w">> /\ vf.preference = "Versions"
    /\ vf.files[<<"w", "p">>] = {".python-version"}
    /\ vf.files[<<"w">>] = VersionFileNames
    /\ vf.files[UserConfigDir] = {".python-version"}
    /\ vf.found = [dir |-> <<"w", "p">>, name |-> ".python-version"]

\* The places, in the order parent interpreter, active environment, conda
\* environment, discovered `.venv`, managed installations, PATH entry after
\* PATH entry, whose interpreter answers the query, satisfies the request and
\* is let through by the preferences.
Matches(request) ==
    LET executables == Executables(disc.machine)
    IN  {i \in 1..Len(executables) :
            /\ executables[i].at.state = "ok"
            /\ request.minor \in {AnyPart, executables[i].at.minor}
            /\ request.patch \in {AnyPart, executables[i].at.patch}
            /\ SatisfiesPreferences(executables[i].source, disc.environments,
                                    disc.preference)}

First(places) == CHOOSE i \in places : \A j \in places : i <= j

C29_StrictThenRelaxed ==
    disc.didFindBest =>
        LET strict == Matches(disc.request)
            relaxed == Matches([disc.request EXCEPT !.patch = AnyPart])
        IN  /\ strict # {} =>
                  disc.found.kind = "Found" /\ disc.found.index = First(strict)
            /\ (strict = {} /\ relaxed # {}) =>
                  disc.found.kind = "Found" /\ disc.found.index = First(relaxed)
            /\ relaxed = {} => disc.found.kind = "NotFound"

\* The active environment holds 3.10.1 and the PATH 3.10.3: the request
\* 3.10.2 has no strict match and gets the active environment's 3.10.1.
C29_Witness ==
    /\ disc.didFindBest
    /\ disc.request = [minor |-> 10, patch |-> 2]
    /\ disc.machine.single["ParentInterpreter"] = NoInterpreter
    /\ disc.machine.single["ActiveEnvironment"] = Interpreter(10, 1)
    /\ disc.machine.path[1] = Interpreter(10, 3)
    /\ disc.found.source = "ActiveEnvironment"
    /\ disc.found.interpreter = Interpreter(10, 1)

\* ------------------------------------------------------- path display

\* A path's text, as the sequence of its separators and segments.
RECURSIVE Interleave(_)
Interleave(segs) ==
    IF segs = <<>> THEN <<>>
    ELSE IF Len(segs) = 1 THEN segs
    ELSE <<segs[1], "/">> \o Interleave(Tail(segs))

\* Path::display / Path::as_os_str: the path as it is written.
AsOsStr(path) ==
    (IF path.abs THEN <<"/">> ELSE <<>>) \o Interleave(path.segs)

\* PathBuf::from(&str): the text is split at its separators.
RECURSIVE SplitSegs(_)
SplitSegs(str) ==
    IF str = <<>> THEN <<>>
    ELSE IF str[1] = "/" THEN SplitSegs(Tail(str))
    ELSE <<str[1]>> \o SplitSegs(Tail(str))

PathBufFrom(str) ==
    [abs |-> str # <<>> /\ str[1] = "/", segs |-> SplitSegs(str)]

\* The path made of the given components.
FromComponents(components) ==
    PathBufFrom(AsOsStr([abs |-> FALSE, segs |-> components]))

\* Path::strip_prefix: by components; the rest of the path when base is a
\* prefix of it.
StripPrefix(path, base) ==
    LET pc == Components(path)
        bc == Components(base)
    IN IF StartsWith(pc, bc)
       THEN [ok |-> TRUE,
             path |-> FromComponents(SubSeq(pc, Len(bc) + 1, Len(pc)))]
       ELSE [ok |-> FALSE, path |-> path]

\* `CWD.ancestors().nth(1).is_none()`: the working directory has no parent.
IsRootDir(cwd) == Cardinality(AncestorLengths(Components(cwd))) < 2

\* Simplified::user_display (dunce::simplified does nothing on Unix).
UserDisplay(path, cwd) ==
    IF IsRootDir(cwd) THEN AsOsStr(path)
    ELSE IF AsOsStr(path) = <<>> THEN <<".">>
    ELSE AsOsStr(StripPrefix(path, cwd).path)

\* Simplified::user_display_from.
UserDisplayFrom(path, base, cwd) ==
    IF IsRootDir(cwd) THEN AsOsStr(path)
    ELSE LET stripped == IF StripPrefix(path, base).ok
                         THEN StripPrefix(path, base).path
                         ELSE StripPrefix(path, cwd).path
         IN IF AsOsStr(stripped) = <<>> THEN <<".">> ELSE AsOsStr(stripped)

\* Simplified::portable_display (to_slash changes nothing on Unix).
PortableDisplay(path, cwd) == AsOsStr(StripPrefix(path, cwd).path)

\* Display for PortablePath / PortablePathBuf.
FmtPortablePath(path) ==
    IF AsOsStr(path) = <<>> THEN <<".">> ELSE AsOsStr(path)

\* From<&str> for PortablePathBuf / Deserialize for PortablePathBuf.
PortablePathBufFrom(str) ==
    IF str = <<".">> THEN PathBufFrom(<<>>) ELSE PathBufFrom(str)

\* PartialEq for PortablePathBuf, derived: the paths are compared, and paths
\* are compared by components.
PortableEq(left, right) == Components(left) = Components(right)

NotShown == <<"NotShown">>

DisplayOps == {"user_display", "user_display_from", "portable_display", "fmt"}

IdleDp == [path |-> NoPath, base |-> NoPath, cwd |-> NoPath,
           shown |-> [op \in DisplayOps |-> NotShown],
           text |-> NotShown, parsed |-> NoPath, didParse |-> FALSE]

\* The paths that are displayed, and the working directories and bases.
ShortPaths == {path \in RawPaths : Len(path.segs) <= 2}
WorkingDirs == {[abs |-> TRUE, segs |-> <<>>], [abs |-> TRUE, segs |-> <<"a">>],
                [abs |-> TRUE, segs |-> <<"a", "b">>]}
Bases == {NoPath, [abs |-> TRUE, segs |-> <<"a">>],
          [abs |-> FALSE, segs |-> <<"a">>]}

InitDisplay ==
    dp \in {[IdleDp EXCEPT !.path = path, !.base = base, !.cwd = cwd] :
              path \in ShortPaths, base \in Bases, cwd \in WorkingDirs}

InitPortable ==
    dp \in {[IdleDp EXCEPT !.path = path] : path \in RawPaths}

ShowUserDisplay ==
    /\ dp.shown["user_display"] = NotShown
    /\ dp' = [dp EXCEPT !.shown["user_display"] = UserDisplay(dp.path, dp.cwd)]
    /\ UNCHANGED <<dbVars, envVars, pyVars, runVars, cfgVars, fsVars, findVars,
                   td, cf>>

ShowUserDisplayFrom ==
    /\ dp.shown["user_display_from"] = NotShown
    /\ dp' = [dp EXCEPT !.shown["user_display_from"] =
                            UserDisplayFrom(dp.path, dp.base, dp.cwd)]
    /\ UNCHANGED <<dbVars, envVars, pyVars, runVars, cfgVars, fsVars, findVars,
                   td, cf>>

ShowPortableDisplay ==
    /\ dp.shown["portable_display"] = NotShown
    /\ dp' = [dp EXCEPT !.shown["portable_display"] =
                            PortableDisplay(dp.path, dp.cwd)]
    /\ UNCHANGED <<dbVars, envVars, pyVars, runVars, cfgVars, fsVars, findVars,
                   td, cf>>

ShowPortablePath ==
    /\ dp.shown["fmt"] = NotShown
    /\ dp' = [dp EXCEPT !.shown["fmt"] = FmtPortablePath(dp.path)]
    /\ UNCHANGED <<dbVars, envVars, pyVars, runVars, cfgVars, fsVars, findVars,
                   td, cf>>

\* PortablePathBuf::from(path) is written out (Serialize: to_string).
SerializePortable ==
    /\ dp.text = NotShown
    /\ dp' = [dp EXCEPT !.text = FmtPortablePath(dp.path)]
    /\ UNCHANGED <<dbVars, envVars, pyVars, runVars, cfgVars, fsVars, findVars,
                   td, cf>>

\* The text is read back (Deserialize / From<&str>).
DeserializePortable ==
    /\ dp.text # NotShown
    /\ ~dp.didParse
    /\ dp' = [dp EXCEPT !.parsed = PortablePathBufFrom(dp.text),
                        !.didParse = TRUE]
    /\ UNCHANGED <<dbVars, envVars, pyVars, runVars, cfgVars, fsVars, findVars,
                   td, cf>>

DisplayNext ==
    \/ ShowUserDisplay
    \/ ShowUserDisplayFrom
    \/ ShowPortableDisplay
    \/ ShowPortablePath

PortableNext ==
    \/ SerializePortable
    \/ DeserializePortable

\* C36: no display operation renders the empty string; a path that is empty,
\* or that is empty once the base or the working directory is stripped, is
\* rendered as `.`.
C36_NeverRendersEmpty ==
    \A op \in DisplayOps :
        dp.shown[op] # NotShown =>
            /\ dp.shown[op] # <<>>
            /\ AsOsStr(dp.path) = <<>> => dp.shown[op] = <<".">>

\* What does hold: Display of PortablePath, and user_display_from under a
\* working directory that is not the root, never render the empty string.
DisplayFromNeverEmpty ==
    /\ dp.shown["fmt"] # <<>>
    /\ ~IsRootDir(dp.cwd) => dp.shown["user_display_from"] # <<>>

\* C37: the PortablePathBuf read back from the text written for a path is
\* equal to the PortablePathBuf of that path.
C37_PortableRoundTrip ==
    dp.didParse => PortableEq(dp.parsed, dp.path)

\* What does hold: every path other than `.` comes back equal, and the empty
\* path is written as `.`.
RoundTripExceptDot ==
    /\ dp.didParse /\ Components(dp.path) # <<".">> =>
            Components(dp.parsed) = Components(dp.path)
    /\ dp.text # NotShown /\ dp.path = NoPath => dp.text = <<".">>

\* update_environment: the environment is returned as it is, without a
\* resolution, when neither a reinstall nor an upgrade is asked for, there
\* are no source trees, the modifications are Sufficient and the site
\* packages satisfy the requirements (an error of satisfies_spec is returned).
UpdateEnvironmentSkips(req, reinstall, upgrade, sourceTrees, sufficient) ==
    /\ ~reinstall
    /\ ~upgrade
    /\ ~sourceTrees
    /\ sufficient
    /\ req = "satisfied"

\* The settings and requirements of one `uv run --with` / one
\* update_environment.
InitSkip ==
    ov \in {[IdleOv EXCEPT !.pc = "settings", !.req = req,
                           !.reinstall = reinstall, !.upgrade = upgrade,
                           !.sourceTrees = sourceTrees,
                           !.sufficient = sufficient] :
              req \in {"satisfied", "unsatisfied", "error"},
              reinstall \in BOOLEAN, upgrade \in BOOLEAN,
              sourceTrees \in BOOLEAN, sufficient \in BOOLEAN}

\* run: can_skip_ephemeral is asked about the --with requirements.
AskCanSkipEphemeral ==
    /\ ov.pc = "settings"
    /\ ~ov.didCanSkip
    /\ ov' = [ov EXCEPT !.didCanSkip = TRUE,
                        !.canSkip = CanSkipEphemeral(ov.req, ov.reinstall)]
    /\ UNCHANGED <<fsVars, findVars, opVars, dbVars, envVars, pyVars, cfgVars,
                   cmd, chain>>

\* update_environment gets as far as its check of the site packages.
AskUpdateEnvironment ==
    /\ ov.pc = "settings"
    /\ ~ov.didUpdate
    /\ ov' = [ov EXCEPT !.didUpdate = TRUE,
                        !.updateSkipped =
                            UpdateEnvironmentSkips(ov.req, ov.reinstall,
                                                   ov.upgrade, ov.sourceTrees,
                                                   ov.sufficient)]
    /\ UNCHANGED <<fsVars, findVars, opVars, dbVars, envVars, pyVars, cfgVars,
                   cmd, chain>>

SkipNext ==
    \/ AskCanSkipEphemeral
    \/ AskUpdateEnvironment

\* C39: can_skip_ephemeral returns false whenever a reinstall or an upgrade
\* is asked for in the settings.
C39_NoSkipOnReinstallOrUpgrade ==
    ov.didCanSkip /\ (ov.reinstall \/ ov.upgrade) => ~ov.canSkip

\* What does hold: a reinstall rules the skip out, and update_environment
\* skips only when neither a reinstall nor an upgrade is asked for.
NoSkipOnReinstall ==
    /\ ov.didCanSkip /\ ov.reinstall => ~ov.canSkip
    /\ ov.didUpdate /\ (ov.reinstall \/ ov.upgrade) => ~ov.updateSkipped

\* ------------------------------------------ request resolution properties

RestDb ==
    /\ dist = "Registry"
    /\ archives = {}
    /\ nextId = 0
    /\ unzips = [i \in ArchiveIds |-> 0]
    /\ http = NoPtr
    /\ rev = NoPtr
    /\ link = 0
    /\ mtime = 0
    /\ limit = 1
    /\ control = 1
    /\ windows = FALSE
    /\ online = TRUE
    /\ lock = 0
    /\ call = [c \in Calls |-> IdleCall]

RestEnv ==
    /\ rootDir = "project_env"
    /\ root = Dir("absent")
    /\ noSync = FALSE
    /\ dryRun = FALSE
    /\ requestSource = "UserRequest"
    /\ envLock = [k \in Targets |-> 0]
    /\ proc = [p \in Procs |-> IdleProc]

RestPy == py = IdlePy

RestRun == cmd = IdleCmd /\ chain = IdleChain /\ ov = IdleOv

RestCmd == cmd = IdleCmd

RestChain == chain = IdleChain

RestOv == ov = IdleOv

RestCs == cs = IdleCs

RestPth == pth = IdlePth

RestVf == vf = IdleVf

RestFind == disc = IdleDisc

RestTd == td = IdleTd

RestCf == cf = IdleCf

RestDp == dp = IdleDp

RestOps == RestTd /\ RestCf /\ RestDp

\* The distribution database, with callers that keep up to NumCalls calls in
\* flight.
Init ==
    /\ InitDb
    /\ inflight = NumCalls
    /\ RestOps
    /\ RestPth
    /\ RestVf
    /\ RestFind
    /\ RestCs
    /\ RestEnv
    /\ RestPy
    /\ RestRun

Spec == Init /\ [][DbNext]_vars

\* The distribution database, with a caller that issues one call after the
\* other.
InitSerial ==
    /\ InitDb
    /\ inflight = 1
    /\ RestOps
    /\ RestPth
    /\ RestVf
    /\ RestFind
    /\ RestCs
    /\ RestEnv
    /\ RestPy
    /\ RestRun

SpecSerial == InitSerial /\ [][DbNext]_vars

\* The environment factory, one execution after the other.
InitEnvSerial ==
    /\ InitEnv
    /\ inflight = 1
    /\ RestOps
    /\ RestPth
    /\ RestVf
    /\ RestFind
    /\ RestCs
    /\ RestDb
    /\ RestPy
    /\ RestRun

SpecEnv == InitEnvSerial /\ [][EnvNext]_vars

\* The environment factory, with overlapping executions.
InitEnvConcurrent ==
    /\ InitEnv
    /\ inflight = NumProcs
    /\ RestOps
    /\ RestPth
    /\ RestVf
    /\ RestFind
    /\ RestCs
    /\ RestDb
    /\ RestPy
    /\ RestRun

SpecEnvConcurrent == InitEnvConcurrent /\ [][EnvNext]_vars

\* The resolution of the Python request, over every combination of inputs.
InitPython ==
    /\ InitPy
    /\ inflight = 1
    /\ RestOps
    /\ RestPth
    /\ RestVf
    /\ RestFind
    /\ RestCs
    /\ RestDb
    /\ RestEnv
    /\ RestRun

SpecPython == InitPython /\ [][PyNext]_vars

\* The classification of the command of `uv run`, over every invocation.
InitCommand ==
    /\ InitCmd
    /\ inflight = 1
    /\ RestOps
    /\ RestPth
    /\ RestVf
    /\ RestFind
    /\ RestCs
    /\ RestDb
    /\ RestEnv
    /\ RestPy
    /\ RestChain
    /\ RestOv

SpecCommand == InitCommand /\ [][CmdNext]_vars

\* Chains of nested `uv run` invocations, over every limit and first depth.
InitRecursion ==
    /\ InitChain
    /\ inflight = 1
    /\ RestOps
    /\ RestPth
    /\ RestVf
    /\ RestFind
    /\ RestCs
    /\ RestDb
    /\ RestEnv
    /\ RestPy
    /\ RestCmd
    /\ RestOv

SpecRecursion == InitRecursion /\ [][ChainNext]_vars

\* The --with environment and the ephemeral overlay of one `uv run`.
InitOverlay ==
    /\ InitOv
    /\ inflight = 1
    /\ RestOps
    /\ RestPth
    /\ RestVf
    /\ RestFind
    /\ RestCs
    /\ RestDb
    /\ RestEnv
    /\ RestPy
    /\ RestCmd
    /\ RestChain

SpecOverlay == InitOverlay /\ [][OvNext]_vars

\* Merging and serializing config settings, over every pair of settings.
InitSettings ==
    /\ InitCs
    /\ inflight = 1
    /\ RestOps
    /\ RestPth
    /\ RestVf
    /\ RestFind
    /\ RestDb
    /\ RestEnv
    /\ RestPy
    /\ RestRun

SpecSettings == InitSettings /\ [][CsNext]_vars

\* One collection of a list of `KEY=VALUE` entries into ConfigSettings.
InitCollectSettings ==
    /\ InitCollect
    /\ inflight = 1
    /\ RestOps
    /\ RestPth
    /\ RestVf
    /\ RestFind
    /\ RestDb
    /\ RestEnv
    /\ RestPy
    /\ RestRun

SpecCollect == InitCollectSettings /\ [][CollectNext]_vars

\* One normalize_absolute_path, over every path of up to MaxComponents
\* segments.
InitNormalizePath ==
    /\ InitNormalize
    /\ inflight = 1
    /\ RestOps
    /\ RestVf
    /\ RestFind
    /\ RestCs
    /\ RestDb
    /\ RestEnv
    /\ RestPy
    /\ RestRun

SpecNormalize == InitNormalizePath /\ [][NormalizeNext]_vars

\* One relative_to, over every pair of such paths.
InitRelativePath ==
    /\ InitRelative
    /\ inflight = 1
    /\ RestOps
    /\ RestVf
    /\ RestFind
    /\ RestCs
    /\ RestDb
    /\ RestEnv
    /\ RestPy
    /\ RestRun

SpecRelative == InitRelativePath /\ [][RelativeNext]_vars

\* One find_python_installation on one machine.
InitFindPython ==
    /\ InitFind
    /\ inflight = 1
    /\ RestOps
    /\ RestPth
    /\ RestVf
    /\ RestCs
    /\ RestDb
    /\ RestEnv
    /\ RestPy
    /\ RestRun

SpecFind == InitFindPython /\ [][FindNext]_vars

\* One find_best_python_installation on one machine.
InitFindBestPython ==
    /\ InitFindBest
    /\ inflight = 1
    /\ RestOps
    /\ RestPth
    /\ RestVf
    /\ RestCs
    /\ RestDb
    /\ RestEnv
    /\ RestPy
    /\ RestRun

SpecFindBest == InitFindBestPython /\ [][FindBestNext]_vars

\* Reading one version file, over every content of up to MaxLines lines.
InitReadVersionFile ==
    /\ InitRead
    /\ inflight = 1
    /\ RestOps
    /\ RestPth
    /\ RestFind
    /\ RestCs
    /\ RestDb
    /\ RestEnv
    /\ RestPy
    /\ RestRun

SpecVersionFile == InitReadVersionFile /\ [][ReadNext]_vars

\* One discovery of a version file, over every placement of version files
\* in the tree, every working directory and every setting of the options.
InitDiscoverVersionFile ==
    /\ InitDiscover
    /\ inflight = 1
    /\ RestOps
    /\ RestPth
    /\ RestFind
    /\ RestCs
    /\ RestDb
    /\ RestEnv
    /\ RestPy
    /\ RestRun

SpecVersionDiscovery == InitDiscoverVersionFile /\ [][DiscoverNext]_vars

\* MaxUnzips unzip operations, one after the other.
InitUnzip ==
    /\ InitTd
    /\ inflight = 1
    /\ RestCf
    /\ RestDp
    /\ RestPth
    /\ RestVf
    /\ RestFind
    /\ RestCs
    /\ RestDb
    /\ RestEnv
    /\ RestPy
    /\ RestRun

SpecUnzip == InitUnzip /\ [][UnzipNext]_vars

\* The database under fair scheduling: a call that can take a step of its own
\* (a request in flight completes, a function body runs on) eventually takes
\* it, and a call waiting for a permit or for the advisory lock gets it if it
\* is free again and again (the semaphore and the lock queue their waiters).
CallRuns(c) ==
    \/ M1Run(c)
    \/ M2Run(c)
    \/ MetaRun(c)
    \/ LoadRead(c)
    \/ LoadUnzip(c)
    \/ Build(c)
    \/ BuildLink(c)
    \/ BuildUnzip(c)

CallWaits(c) ==
    \/ Lock(c)
    \/ M1Acquire(c)
    \/ M2Acquire(c)
    \/ MetaAcquire(c)

FairCalls ==
    \A c \in Calls : WF_vars(CallRuns(c)) /\ SF_vars(CallWaits(c))

SpecFair == Init /\ [][DbNext]_vars /\ FairCalls

\* One detect_conflicts, over every lock of up to MaxConflictSets conflict
\* sets and every choice of enabled extras and groups.
InitConflicts ==
    /\ InitCf
    /\ inflight = 1
    /\ RestTd
    /\ RestDp
    /\ RestPth
    /\ RestVf
    /\ RestFind
    /\ RestCs
    /\ RestDb
    /\ RestEnv
    /\ RestPy
    /\ RestRun

SpecConflicts == InitConflicts /\ [][ConflictNext]_vars

\* The four display operations on one path, under every working directory
\* and base.
InitDisplayPath ==
    /\ InitDisplay
    /\ inflight = 1
    /\ RestTd
    /\ RestCf
    /\ RestPth
    /\ RestVf
    /\ RestFind
    /\ RestCs
    /\ RestDb
    /\ RestEnv
    /\ RestPy
    /\ RestRun

SpecDisplay == InitDisplayPath /\ [][DisplayNext]_vars

\* One PortablePathBuf written out and read back, over every path of up to
\* MaxComponents segments.
InitPortablePath ==
    /\ InitPortable
    /\ inflight = 1
    /\ RestTd
    /\ RestCf
    /\ RestPth
    /\ RestVf
    /\ RestFind
    /\ RestCs
    /\ RestDb
    /\ RestEnv
    /\ RestPy
    /\ RestRun

SpecPortable == InitPortablePath /\ [][PortableNext]_vars

\* The two checks of whether an environment can be used as it is, over every
\* combination of settings.
InitSkipSettings ==
    /\ InitSkip
    /\ inflight = 1
    /\ RestOps
    /\ RestPth
    /\ RestVf
    /\ RestFind
    /\ RestCs
    /\ RestDb
    /\ RestEnv
    /\ RestPy
    /\ RestCmd
    /\ RestChain

SpecSkip == InitSkipSettings /\ [][SkipNext]_vars

\* Collecting entries in parts and merging the parts, over every choice of
\* parts.
InitCollectParts ==
    /\ InitParts
    /\ inflight = 1
    /\ RestOps
    /\ RestPth
    /\ RestVf
    /\ RestFind
    /\ RestDb
    /\ RestEnv
    /\ RestPy
    /\ RestRun

SpecParts == InitCollectParts /\ [][PartsNext]_vars

====
